---------------------------- MODULE Spec2Model ----------------------------
(***************************************************************************)
(* The delivery reconciliation engine of the factory inventory service:    *)
(* routers/delivery.py `create`, the repositories it calls and the         *)
(* Warehouse / StockPosition models, over a transactional SQLite store.    *)
(*                                                                         *)
(* With it the catalogue it works on: the create and patch handlers of     *)
(* routers/materials.py, products.py and warehouses.py, and the named      *)
(* tables' constraints.                                                    *)
(*                                                                         *)
(* The store is the committed tables `warehouses`, `materials`, `products` *)
(* and `stock`.  Every                                                     *)
(* request runs on a Session of its own (dependencies.get_session); a      *)
(* session keeps the ORM objects it has loaded (`warehouse`, `identity`),  *)
(* and the rows it has flushed into its open transaction (`txn`).          *)
(***************************************************************************)
EXTENDS Integers, Sequences, FiniteSets

VARIABLES
    warehouses,  \* committed warehouse table: set of rows
    materials,   \* committed material table: set of rows
    products,    \* committed product table: set of rows
    stock,       \* committed stockposition table: set of rows
    writer,      \* session holding the SQLite write lock, or NoSession
    pc,          \* per session: position of the handler
    request,     \* per session: the operation and body of a catalogue request
    delivery,    \* per session: the body of a delivery request
    pos,         \* per session: index of the line item the loop is at
    warehouse,   \* per session: the loaded Warehouse object
    identity,    \* per session: StockPosition objects held by the session
    pending,     \* per session: id of the object the next flush writes
    txn,         \* per session: rows flushed in the open transaction
    response,    \* per session: what the handler answered
    before,      \* per session: the committed tables when the request began
    created,     \* per session: ids of the StockPositions the request constructed
    calls,       \* per session: the commit / rollback calls the handler made
    served,      \* number of delivery requests accepted so far
    removed,     \* per session: ids of the rows session.delete() has marked
    session,     \* per caller: the Session its repository is bound to (_session)
    now,         \* the database's clock, in seconds (CURRENT_TIMESTAMP)
    journal      \* the requests served so far, with their answers

vars == <<warehouses, materials, products, stock, writer, pc, request, delivery, pos, warehouse, identity,
          pending, txn, response, before, created, calls, served, removed, session, now,
          journal>>

---------------------------------------------------------------------------
(* Bounds of the model. *)

MaxWarehouses == 2
MaxCapacity == 2
MaxQuantity == 2
MaxPositions == 2
MaxDeliveries == 2
MaxInterleavedPositions == 1
MaxProducts == 2
MaxOffset == 2
MaxPage == 2
MaxClock == 1
MaxJournal == 3
MaxCalls == 3
MaxRows == 2

(* Warehouse.max_capacity: Field(default=1000000, ge=1) *)
DefaultMaxCapacity == 1000000

Sessions == {"s1", "s2"}
NoSession == "none"
Materials == {"hydrogen", "sulphur"}
WarehouseIds == 1..MaxWarehouses
Capacities == 1..MaxCapacity

(* DeliveryPosition.quantity is declared `int`, with no lower bound. *)
DeliveryPositionValid(p) == p.quantity \in Int

DeliveryValid(d) ==
    \A i \in 1..Len(d.positions) : DeliveryPositionValid(d.positions[i])

Quantities == -1..MaxQuantity
NonNegQuantities == 0..MaxQuantity

PositionsOver(Q) ==
    UNION {[1..n -> [material_id : Materials, quantity : Q]] : n \in 0..MaxPositions}

DeliveriesOver(Q) == [warehouse_id : WarehouseIds, positions : PositionsOver(Q)]

Deliveries == DeliveriesOver(Quantities)
NonNegDeliveries == DeliveriesOver(NonNegQuantities)
InterleavedDeliveries ==
    {d \in NonNegDeliveries : Len(d.positions) <= MaxInterleavedPositions}

---------------------------------------------------------------------------
(* Values. *)

NoDelivery == [warehouse_id |-> 0, positions |-> <<>>]
NoWarehouse == [id |-> 0, max_capacity |-> 0, loaded |-> FALSE, stock |-> {}]
NoException == [type |-> "none", message |-> "none"]

(* What a request was answered: the status, and of the body the capacity   *)
(* and stock of a warehouse, the entity, or the list of entities.  For a   *)
(* direct call of a repository: what it returned or raised.                *)
NoResponse ==
    [status |-> 0, capacity |-> 0, stock |-> {}, entity |-> {}, items |-> <<>>,
     raised |-> NoException]
NoSnapshot == [warehouses |-> {}, materials |-> {}, products |-> {}, stock |-> {}]

(* An optional field of a request body: given with a value, or left out. *)
Some(v) == [set |-> TRUE, value |-> v]
NoText == [set |-> FALSE, value |-> <<>>]
NoNumber == [set |-> FALSE, value |-> 0]

(* The body of a catalogue request, with the slug of its path. *)
NoBody ==
    [op |-> "none", name |-> <<>>, slug |-> <<>>, location |-> NoText,
     max_capacity |-> NoNumber, quantity_unit |-> NoText, offset |-> 0, limit |-> 0]

(* Strings are sequences of characters.  The names requests are drawn from: *)
(* two names that differ in case only, one with a space, one made of       *)
(* punctuation only, one of a single character.                            *)
CatalogNames ==
    {<<"A", "b">>, <<"a", "b">>, <<"a", " ", "B">>, <<"!", "!">>, <<"a">>}
QuantityUnits == {<<"k", "g">>, <<"m", "o", "l", "e">>}
Locations == {<<"W", "i", "e", "n">>, <<"G", "r", "a", "z">>}
CatalogLocations == Locations \cup {<<"X">>}

(* The requests of the tests' fixtures: the k-th entity of a kind is       *)
(* created with the k-th name and location.                                *)
TestNames == <<(<<"A", "b">>), (<<"a", " ", "B">>), (<<"B", "a">>)>>
TestLocations == <<(<<"W", "i", "e", "n">>), (<<"G", "r", "a", "z">>), (<<"X", "X">>)>>

HTTP_200_OK == 200
HTTP_201_CREATED == 201
HTTP_204_NO_CONTENT == 204
HTTP_400_BAD_REQUEST == 400
HTTP_404_NOT_FOUND == 404
HTTP_409_CONFLICT == 409
HTTP_422_UNPROCESSABLE == 422
HTTP_500_INTERNAL_SERVER_ERROR == 500

RECURSIVE SumQuantity(_)
SumQuantity(rows) ==
    IF rows = {} THEN 0
    ELSE LET r == CHOOSE x \in rows : TRUE
         IN r.quantity + SumQuantity(rows \ {r})

RECURSIVE SumPositions(_)
SumPositions(ps) ==
    IF ps = <<>> THEN 0 ELSE Head(ps).quantity + SumPositions(Tail(ps))

Ids(rows) == {r.id : r \in rows}

---------------------------------------------------------------------------
(* The store as a session sees it, and the repositories' queries. *)

(* A session that does not read its own flushed rows. *)
ViewCommittedOnly(s) == stock

(* Rows a SELECT on session s returns: the committed table overlaid with   *)
(* the rows the session itself has flushed in its open transaction,        *)
(* without the rows it has marked deleted (a query flushes them first).    *)
View(s) ==
    {r \in {x \in stock : x.id \notin Ids(txn[s])} \cup txn[s] : r.id \notin removed[s]}

(* Objects of a query result enter the session; an object the session      *)
(* already holds is returned as it is, its attributes are not refreshed.   *)
Load(objs, rows) == objs \cup {r \in rows : r.id \notin Ids(objs)}

(* SQLRepository.find_by_id: the rows `.one()` chooses from. *)
find_by_id(id) == {w \in warehouses : w.id = id}

(* The lookup with the material filter left out. *)
find_by_warehouse_id_only(rows, warehouse_id, material_id) ==
    {r \in rows : r.warehouse_id = warehouse_id}

(* The lookup with the warehouse filter left out. *)
find_by_material_id_only(rows, warehouse_id, material_id) ==
    {r \in rows : r.material_id = material_id}

(* StockPositionSQLRepository.find_by_warehouse_id_and_material_id:        *)
(* the rows `.one()` chooses from.                                         *)
find_by_warehouse_id_and_material_id(rows, warehouse_id, material_id) ==
    {r \in rows : r.warehouse_id = warehouse_id /\ r.material_id = material_id}

(* `=` in place of `+=`. *)
IncrementedOverwrites(o, quantity) == [o EXCEPT !.quantity = quantity]

(* stock.quantity += position.quantity *)
Incremented(o, quantity) == [o EXCEPT !.quantity = @ + quantity]

(* uuid.uuid4 of DefaultMixin.id: an id no row or object has. *)
NewId(used) == CHOOSE n \in 1..(Cardinality(used) + 1) : n \notin used

UsedIds == Ids(stock) \cup UNION {Ids(txn[s]) \cup Ids(identity[s]) : s \in Sessions}

(* The table with UNIQUE (warehouse_id, material_id) declared. *)
IntegrityViolationUniquePair(rows, o) ==
    \E r \in rows : \/ r.id = o.id
                    \/ /\ r.warehouse_id = o.warehouse_id
                       /\ r.material_id = o.material_id

IntegrityViolationNever(rows, o) == FALSE

(* What the stockposition table rejects on INSERT: only a repeated primary *)
(* key.  The table declares no uniqueness of (warehouse_id, material_id).  *)
IntegrityViolation(rows, o) == \E r \in rows : r.id = o.id

(* session.commit() and session.rollback() on the committed table. *)
AfterCommit(committed, staged) ==
    {r \in committed : r.id \notin Ids(staged)} \cup staged

(* A rollback that leaves the flushed rows in the table. *)
AfterRollbackKeepsStaged(committed, staged) == AfterCommit(committed, staged)

AfterRollback(committed, staged) == committed

(* The DELETE statements of the rows marked by session.delete(). *)
AfterDelete(rows, ids) == {r \in rows : r.id \notin ids}

Release(s) == IF writer = s THEN NoSession ELSE writer

(* `if warehouse.capacity < position.quantity` *)
CapacityExceededOrReached(available, quantity) == available <= quantity

CapacityExceeded(available, quantity) == available < quantity

(* models.StockPosition(warehouse_id=..., material_id=..., quantity=...),  *)
(* its id drawn by the default factory.                                    *)
StockPositionTruthyQuantity(id, warehouse_id, material_id, quantity) ==
    [id |-> id, warehouse_id |-> warehouse_id, material_id |-> material_id,
     quantity |-> IF quantity = 0 THEN 1 ELSE quantity]

StockPosition(id, warehouse_id, material_id, quantity) ==
    [id |-> id, warehouse_id |-> warehouse_id, material_id |-> material_id,
     quantity |-> quantity]

(* Warehouse.capacity: max_capacity minus the quantities of its stock. *)
capacityIgnoresStock(max_capacity, stockObjs) == max_capacity

capacity(max_capacity, stockObjs) == max_capacity - SumQuantity(stockObjs)

(* The computed field as declared: a warehouse whose stock is None is      *)
(* given its max_capacity.                                                 *)
NoStock == [set |-> FALSE, value |-> {}]

WarehouseCapacity(max_capacity, relation) ==
    IF ~relation.set THEN max_capacity ELSE capacity(max_capacity, relation.value)

(* Warehouse.stock: the stock positions whose warehouse_id is the warehouse's. *)
StockOfAnyWarehouse(rows, warehouse_id) == rows

StockOf(rows, warehouse_id) == {r \in rows : r.warehouse_id = warehouse_id}

(* The calls a handler makes on its session, in order: session.commit()    *)
(* on the success path, session.rollback() in every except clause.         *)
OnSuccess(made) == Append(made, "commit")

OnErrorSkipsRollback(made) == made

OnError(made) == Append(made, "rollback")

Snapshot ==
    [warehouses |-> warehouses, materials |-> materials, products |-> products,
     stock |-> stock]

---------------------------------------------------------------------------
(* The initial state: create_all on an empty database, no request. *)

Init ==
    /\ warehouses = {}
    /\ materials = {}
    /\ products = {}
    /\ stock = {}
    /\ writer = NoSession
    /\ pc = [s \in Sessions |-> "idle"]
    /\ request = [s \in Sessions |-> NoBody]
    /\ delivery = [s \in Sessions |-> NoDelivery]
    /\ pos = [s \in Sessions |-> 0]
    /\ warehouse = [s \in Sessions |-> NoWarehouse]
    /\ identity = [s \in Sessions |-> {}]
    /\ pending = [s \in Sessions |-> [id |-> 0, kind |-> "none"]]
    /\ txn = [s \in Sessions |-> {}]
    /\ response = [s \in Sessions |-> NoResponse]
    /\ before = [s \in Sessions |-> NoSnapshot]
    /\ created = [s \in Sessions |-> {}]
    /\ calls = [s \in Sessions |-> <<>>]
    /\ served = 0
    /\ removed = [s \in Sessions |-> {}]
    /\ session = [s \in Sessions |-> NoSession]
    /\ now = 0
    /\ journal = <<>>

---------------------------------------------------------------------------
(* The except clauses of `create`: session.rollback(), then the error. *)

Raise(s, status) ==
    /\ stock' = AfterRollback(stock, txn[s])
    /\ writer' = Release(s)
    /\ txn' = [txn EXCEPT ![s] = {}]
    /\ identity' = [identity EXCEPT ![s] = {}]
    /\ warehouse' = [warehouse EXCEPT ![s] = NoWarehouse]
    /\ pending' = [pending EXCEPT ![s] = [id |-> 0, kind |-> "none"]]
    /\ response' = [response EXCEPT ![s] = [NoResponse EXCEPT !.status = status]]
    /\ calls' = [calls EXCEPT ![s] = OnError(@)]
    /\ pc' = [pc EXCEPT ![s] = "done"]

(* POST /delivery/ arrives: the body is validated, the repositories are    *)
(* bound to the request's session, the warehouse is looked up by id.       *)
(* A RepositoryException of find_by_id is none of IntegrityError and       *)
(* HTTPException: `except Exception` answers it.                           *)
DeliveryBeginUpTo(s, d, deliveries) ==
    /\ pc[s] = "idle"
    /\ UNCHANGED <<removed, session, now, journal>>
    /\ served < deliveries
    /\ served' = served + 1
    /\ request' = [request EXCEPT ![s] = [NoBody EXCEPT !.op = "delivery"]]
    /\ delivery' = [delivery EXCEPT ![s] = d]
    /\ before' = [before EXCEPT ![s] = Snapshot]
    /\ UNCHANGED <<warehouses, materials, products, created>>
    /\ IF ~DeliveryValid(d)
       THEN /\ response' = [response EXCEPT ![s] =
                   [NoResponse EXCEPT !.status = HTTP_422_UNPROCESSABLE]]
            /\ pc' = [pc EXCEPT ![s] = "done"]
            /\ UNCHANGED <<stock, writer, pos, warehouse, identity, pending, txn, calls>>
       ELSE LET found == find_by_id(d.warehouse_id) IN
            IF found = {}
            THEN /\ Raise(s, HTTP_500_INTERNAL_SERVER_ERROR)
                 /\ UNCHANGED pos
            ELSE LET w == CHOOSE x \in found : TRUE IN
                 /\ warehouse' = [warehouse EXCEPT ![s] =
                        [id |-> w.id, max_capacity |-> w.max_capacity,
                         loaded |-> FALSE, stock |-> {}]]
                 /\ pos' = [pos EXCEPT ![s] = 1]
                 /\ pc' = [pc EXCEPT ![s] =
                        IF Len(d.positions) = 0 THEN "commit" ELSE "check"]
                 /\ UNCHANGED <<stock, writer, identity, pending, txn, response, calls>>

DeliveryBegin(s, d) == DeliveryBeginUpTo(s, d, MaxDeliveries)

(* `if warehouse.capacity < position.quantity`: the first read of          *)
(* warehouse.stock loads the collection, later reads use the loaded one.   *)
DeliveryCheckCapacity(s) ==
    /\ pc[s] = "check"
    /\ UNCHANGED <<removed, session, now, journal>>
    /\ LET p == delivery[s].positions[pos[s]]
           w == warehouse[s]
           rows == StockOf(View(s), w.id)
           objs == IF w.loaded THEN identity[s] ELSE Load(identity[s], rows)
           coll == IF w.loaded THEN w.stock ELSE Ids(rows)
       IN IF CapacityExceeded(capacity(w.max_capacity, {o \in objs : o.id \in coll}),
                              p.quantity)
          THEN /\ Raise(s, HTTP_400_BAD_REQUEST)
               /\ UNCHANGED <<warehouses, materials, products, request, delivery, pos, before, created, served>>
          ELSE /\ warehouse' = [warehouse EXCEPT ![s] =
                      [w EXCEPT !.loaded = TRUE, !.stock = coll]]
               /\ identity' = [identity EXCEPT ![s] = objs]
               /\ pc' = [pc EXCEPT ![s] = "find"]
               /\ UNCHANGED <<warehouses, materials, products, request, stock, writer, delivery, pos, pending,
                              txn, response, before, created, calls, served>>

(* A lookup that takes the first of several rows (`.first()`). *)
DeliveryFindStockIdTakesFirst(s, id) ==
    /\ pc[s] = "find"
    /\ UNCHANGED <<removed, session, now, journal>>
    /\ LET p == delivery[s].positions[pos[s]]
           w == warehouse[s]
           found == find_by_warehouse_id_and_material_id(View(s), w.id, p.material_id)
       IN /\ IF found = {}
             THEN LET new == StockPosition(id, w.id, p.material_id, p.quantity)
                  IN /\ identity' = [identity EXCEPT ![s] = @ \cup {new}]
                     /\ created' = [created EXCEPT ![s] = @ \cup {new.id}]
                     /\ pending' = [pending EXCEPT ![s] =
                            [id |-> new.id, kind |-> "insert"]]
             ELSE LET r == CHOOSE x \in found : TRUE
                      o == CHOOSE x \in Load(identity[s], {r}) : x.id = r.id
                  IN /\ identity' = [identity EXCEPT ![s] =
                            {x \in @ : x.id # o.id}
                                \cup {Incremented(o, p.quantity)}]
                     /\ pending' = [pending EXCEPT ![s] =
                            [id |-> o.id,
                             kind |-> IF p.quantity = 0 THEN "clean" ELSE "update"]]
                     /\ UNCHANGED created
          /\ pc' = [pc EXCEPT ![s] = "flush"]
          /\ UNCHANGED <<warehouses, materials, products, request, stock, writer, delivery, pos, warehouse,
                         txn, response, before, calls, served>>

(* The lookup of the stock position and the branch on its outcome: one row *)
(* is incremented, NoResultFound (a RepositoryException) constructs a new  *)
(* StockPosition, MultipleResultsFound reaches `except Exception`.         *)
DeliveryFindStockId(s, id) ==
    /\ pc[s] = "find"
    /\ UNCHANGED <<removed, session, now, journal>>
    /\ LET p == delivery[s].positions[pos[s]]
           w == warehouse[s]
           found == find_by_warehouse_id_and_material_id(View(s), w.id, p.material_id)
       IN IF Cardinality(found) > 1
          THEN /\ Raise(s, HTTP_500_INTERNAL_SERVER_ERROR)
               /\ UNCHANGED <<warehouses, materials, products, request, delivery, pos, before, created, served>>
          ELSE /\ IF found = {}
                  THEN LET new == StockPosition(id, w.id, p.material_id, p.quantity)
                       IN /\ identity' = [identity EXCEPT ![s] = @ \cup {new}]
                          /\ created' = [created EXCEPT ![s] = @ \cup {new.id}]
                          /\ pending' = [pending EXCEPT ![s] =
                                 [id |-> new.id, kind |-> "insert"]]
                  ELSE LET r == CHOOSE x \in found : TRUE
                           o == CHOOSE x \in Load(identity[s], {r}) : x.id = r.id
                       IN /\ identity' = [identity EXCEPT ![s] =
                                 {x \in @ : x.id # o.id}
                                     \cup {Incremented(o, p.quantity)}]
                          /\ pending' = [pending EXCEPT ![s] =
                                 [id |-> o.id,
                                  kind |-> IF p.quantity = 0 THEN "clean" ELSE "update"]]
                          /\ UNCHANGED created
               /\ pc' = [pc EXCEPT ![s] = "flush"]
               /\ UNCHANGED <<warehouses, materials, products, request, stock, writer, delivery, pos, warehouse,
                              txn, response, before, calls, served>>

(* DefaultMixin.id is drawn by uuid4: an id no row and no object has. *)
DeliveryFindStock(s) == DeliveryFindStockId(s, NewId(UsedIds))

(* uuid4 is random: nothing but chance keeps it from an id in use. *)
DeliveryFindStockCollision(s) ==
    \E id \in Ids(View(s)) : DeliveryFindStockId(s, id)

(* repository.update / repository.create: session.add and session.flush.   *)
(* The INSERT or UPDATE takes the database's write lock; an object with no *)
(* net change emits no statement.                                          *)
DeliveryFlush(s) ==
    /\ pc[s] = "flush"
    /\ UNCHANGED <<removed, session, now, journal>>
    /\ pending[s].kind = "clean" \/ writer \in {NoSession, s}
    /\ LET o == CHOOSE x \in identity[s] : x.id = pending[s].id IN
       IF pending[s].kind = "insert" /\ IntegrityViolation(View(s), o)
       THEN /\ Raise(s, HTTP_409_CONFLICT)
            /\ UNCHANGED <<warehouses, materials, products, request, delivery, pos, before, created, served>>
       ELSE /\ IF pending[s].kind = "clean"
               THEN UNCHANGED <<txn, writer>>
               ELSE /\ txn' = [txn EXCEPT ![s] = {r \in @ : r.id # o.id} \cup {o}]
                    /\ writer' = s
            /\ pending' = [pending EXCEPT ![s] = [id |-> 0, kind |-> "none"]]
            /\ pos' = [pos EXCEPT ![s] = @ + 1]
            /\ pc' = [pc EXCEPT ![s] =
                   IF pos[s] < Len(delivery[s].positions) THEN "check" ELSE "commit"]
            /\ UNCHANGED <<warehouses, materials, products, request, stock, delivery, warehouse, identity,
                           response, before, created, calls, served>>

(* The write lock is held by another connection until the busy timeout:    *)
(* OperationalError, answered by `except Exception`.                       *)
DeliveryFlushLocked(s) ==
    /\ pc[s] = "flush"
    /\ UNCHANGED <<removed, session, now, journal>>
    /\ pending[s].kind # "clean"
    /\ writer \notin {NoSession, s}
    /\ Raise(s, HTTP_500_INTERNAL_SERVER_ERROR)
    /\ UNCHANGED <<warehouses, materials, products, request, delivery, pos, before, created, served>>

(* session.commit() after the loop; the session's objects are expired. *)
DeliveryCommit(s) ==
    /\ pc[s] = "commit"
    /\ UNCHANGED <<removed, session, now, journal>>
    /\ stock' = AfterCommit(stock, txn[s])
    /\ writer' = Release(s)
    /\ txn' = [txn EXCEPT ![s] = {}]
    /\ identity' = [identity EXCEPT ![s] = {}]
    /\ warehouse' = [warehouse EXCEPT ![s] = [@ EXCEPT !.loaded = FALSE, !.stock = {}]]
    /\ calls' = [calls EXCEPT ![s] = OnSuccess(@)]
    /\ pc' = [pc EXCEPT ![s] = "respond"]
    /\ UNCHANGED <<warehouses, materials, products, request, delivery, pos, pending, response, before, created, served>>

(* WarehouseResponse.model_validate(warehouse): the expired warehouse and  *)
(* its stock are read again, capacity is computed from what was read.      *)
DeliveryRespond(s) ==
    /\ pc[s] = "respond"
    /\ UNCHANGED <<removed, session, now, journal>>
    /\ LET found == find_by_id(warehouse[s].id) IN
       IF found = {}
       THEN /\ Raise(s, HTTP_500_INTERNAL_SERVER_ERROR)
            /\ UNCHANGED <<warehouses, materials, products, request, delivery, pos, before, created, served>>
       ELSE LET w == CHOOSE x \in found : TRUE
                rows == StockOf(View(s), w.id)
            IN /\ response' = [response EXCEPT ![s] =
                      [NoResponse EXCEPT !.status = HTTP_201_CREATED,
                                         !.capacity = capacity(w.max_capacity, rows),
                                         !.stock = rows]]
               /\ warehouse' = [warehouse EXCEPT ![s] = NoWarehouse]
               /\ pc' = [pc EXCEPT ![s] = "done"]
               /\ UNCHANGED <<warehouses, materials, products, request, stock, writer, delivery, pos, identity,
                              pending, txn, before, created, calls, served>>

(* get_session: the `with Session(...)` block ends, the request is over. *)
SessionEnd(s) ==
    /\ pc[s] = "done"
    /\ removed' = [removed EXCEPT ![s] = {}]
    /\ session' = [session EXCEPT ![s] = NoSession]
    /\ UNCHANGED now
    /\ pc' = [pc EXCEPT ![s] = "idle"]
    /\ request' = [request EXCEPT ![s] = NoBody]
    /\ delivery' = [delivery EXCEPT ![s] = NoDelivery]
    /\ pos' = [pos EXCEPT ![s] = 0]
    /\ response' = [response EXCEPT ![s] = NoResponse]
    /\ before' = [before EXCEPT ![s] = NoSnapshot]
    /\ created' = [created EXCEPT ![s] = {}]
    /\ calls' = [calls EXCEPT ![s] = <<>>]
    /\ UNCHANGED <<warehouses, materials, products, stock, writer, warehouse, identity,
                   pending, txn, served>>

SessionClose(s) == SessionEnd(s) /\ UNCHANGED journal

(* The same, keeping the request and its answer in the journal. *)
SessionCloseLogged(s) ==
    /\ Len(journal) < MaxJournal
    /\ SessionEnd(s)
    /\ journal' = Append(journal, [request |-> request[s], response |-> response[s]])

---------------------------------------------------------------------------
(* The catalogue: materials, products and warehouses. *)

(* slugify(name) of python-slugify with its defaults: the text is          *)
(* lower-cased, every character that is no letter, digit or hyphen becomes *)
(* a hyphen, runs of hyphens become one, hyphens at the ends are dropped.  *)
lower(c) ==
    CASE c = "A" -> "a"
      [] c = "B" -> "b"
      [] c = "G" -> "g"
      [] c = "W" -> "w"
      [] c = "X" -> "x"
      [] OTHER -> c

Allowed == {"a", "b", "e", "g", "i", "k", "l", "m", "n", "o", "r", "w", "x", "z", "-"}

Dashed(text) ==
    [i \in 1..Len(text) |->
        IF lower(text[i]) \in Allowed THEN lower(text[i]) ELSE "-"]

RECURSIVE Collapsed(_)
Collapsed(text) ==
    IF Len(text) < 2 THEN text
    ELSE IF text[1] = "-" /\ text[2] = "-" THEN Collapsed(Tail(text))
    ELSE <<text[1]>> \o Collapsed(Tail(text))

RECURSIVE Stripped(_)
Stripped(text) ==
    IF text = <<>> THEN text
    ELSE IF Head(text) = "-" THEN Stripped(Tail(text))
    ELSE IF text[Len(text)] = "-" THEN Stripped(SubSeq(text, 1, Len(text) - 1))
    ELSE text

slugify(text) == Stripped(Collapsed(Dashed(text)))

(* The slugs a path can name: a path segment is not empty. *)
Slugs == {slugify(n) : n \in CatalogNames} \ {<<>>}

(* The request models of models/requests_.py. *)
MaterialCreateValid(body) ==
    /\ Len(body.name) >= 2
    /\ body.quantity_unit.set
    /\ Len(body.quantity_unit.value) >= 1
    /\ Len(body.quantity_unit.value) <= 40

MaterialPatchValid(body) ==
    body.quantity_unit.set =>
        /\ Len(body.quantity_unit.value) >= 1
        /\ Len(body.quantity_unit.value) <= 40

ProductCreateValid(body) == Len(body.name) >= 2

WarehouseCreateValid(body) ==
    /\ Len(body.name) >= 2
    /\ body.location.set
    /\ Len(body.location.value) >= 2
    /\ body.max_capacity.set => body.max_capacity.value >= 1

WarehousePatchValid(body) ==
    /\ body.location.set => Len(body.location.value) >= 2
    /\ body.max_capacity.set => body.max_capacity.value >= 1

(* The bodies the requests are drawn from. *)
MaterialCreates ==
    {[NoBody EXCEPT !.op = "create_material", !.name = n, !.quantity_unit = Some(u)] :
        n \in CatalogNames, u \in QuantityUnits}

MaterialPatches ==
    {[NoBody EXCEPT !.op = "update_material", !.slug = g, !.quantity_unit = u] :
        g \in Slugs, u \in {NoText} \cup {Some(x) : x \in QuantityUnits}}

ProductCreates ==
    {[NoBody EXCEPT !.op = "create_product", !.name = n] : n \in CatalogNames}

ProductPatches == {[NoBody EXCEPT !.op = "update_product", !.slug = g] : g \in Slugs}

WarehouseCreates ==
    {[NoBody EXCEPT !.op = "create_warehouse", !.name = n, !.location = Some(l),
                    !.max_capacity = c] :
        n \in CatalogNames, l \in CatalogLocations,
        c \in {NoNumber} \cup {Some(x) : x \in Capacities}}

WarehousePatches ==
    {[NoBody EXCEPT !.op = "update_warehouse", !.slug = g, !.location = l,
                    !.max_capacity = c] :
        g \in Slugs, l \in {NoText} \cup {Some(x) : x \in CatalogLocations},
        c \in {NoNumber} \cup {Some(x) : x \in Capacities}}

(* Query(ge=0) for offset, Query(ge=0, le=1000) for limit. *)
MaxLimit == 1000

ListValid(body) ==
    /\ body.offset >= 0
    /\ body.limit >= 0
    /\ body.limit <= MaxLimit

Offsets == -1..MaxOffset
Limits == (-1..MaxPage) \cup {MaxLimit, MaxLimit + 1}

(* A read or a deletion names a slug; a listing names a window. *)
BySlug(op) == {[NoBody EXCEPT !.op = op, !.slug = g] : g \in Slugs}

Listings(op) ==
    {[NoBody EXCEPT !.op = op, !.offset = o, !.limit = l] : o \in Offsets, l \in Limits}

(* The slugs of a round trip: the slug of the first fixture, and a slug    *)
(* that no entity has.                                                     *)
RoundTripSlugs == {slugify(TestNames[1]), slugify(<<"a">>)}

RoundTrip(op) == {body \in BySlug(op) : body.slug \in RoundTripSlugs}

(* A listing with the defaults of its parameters: offset 0, limit 1000. *)
DefaultListing(op) == [NoBody EXCEPT !.op = op, !.offset = 0, !.limit = MaxLimit]

(* The bodies of the tests' fixtures for the next entity of a kind. *)
TestMaterial(u) ==
    [NoBody EXCEPT !.op = "create_material",
                   !.name = TestNames[Cardinality(materials) + 1],
                   !.quantity_unit = Some(u)]

TestProduct ==
    [NoBody EXCEPT !.op = "create_product",
                   !.name = TestNames[Cardinality(products) + 1]]

TestWarehouse(c) ==
    [NoBody EXCEPT !.op = "create_warehouse",
                   !.name = TestNames[Cardinality(warehouses) + 1],
                   !.location = Some(TestLocations[Cardinality(warehouses) + 1]),
                   !.max_capacity = Some(c)]

(* NamedMixin.__init__: the slug is derived from the name when the record  *)
(* is constructed; a table model is constructed without validation.        *)
Named(id, name) == [id |-> id, name |-> name, slug |-> slugify(name)]

Material(id, body) ==
    [id |-> id, name |-> body.name, slug |-> Named(id, body.name).slug,
     quantity_unit |-> body.quantity_unit.value]

Product(id, body) == Named(id, body.name)

WarehouseWithoutDefault(id, body) ==
    [id |-> id, name |-> body.name, slug |-> Named(id, body.name).slug,
     location |-> body.location.value,
     max_capacity |-> body.max_capacity.value]

Warehouse(id, body) ==
    [id |-> id, name |-> body.name, slug |-> Named(id, body.name).slug,
     location |-> body.location.value,
     max_capacity |-> IF body.max_capacity.set THEN body.max_capacity.value
                      ELSE DefaultMaxCapacity]

(* The constraints of the named tables.  CHECK: length(name) > 1 and       *)
(* length(slug) > 0.  UNIQUE: name, slug, and the location of a warehouse. *)
CheckViolation(record) == ~(Len(record.name) > 1) \/ ~(Len(record.slug) > 0)

UniqueViolationNameOnly(rows, record) ==
    \E r \in rows : r.id # record.id /\ r.name = record.name

UniqueViolation(rows, record) ==
    \E r \in rows :
        /\ r.id # record.id
        /\ r.name = record.name \/ r.slug = record.slug

LocationViolation(rows, record) ==
    \E r \in rows : r.id # record.id /\ r.location = record.location

find_by_slugComparesName(rows, slug) == {r \in rows : r.name = slug}

find_by_slug(rows, slug) == {r \in rows : r.slug = slug}

(* The patch handlers' assignments. *)
PatchedMaterial(material, body) ==
    IF body.quantity_unit.set
    THEN [material EXCEPT !.quantity_unit = body.quantity_unit.value]
    ELSE material

PatchedWarehouseRenames(w, body) ==
    [w EXCEPT !.name = IF body.location.set THEN body.location.value ELSE @,
              !.slug = IF body.location.set THEN slugify(body.location.value) ELSE @,
              !.max_capacity = IF body.max_capacity.set THEN body.max_capacity.value ELSE @]

PatchedWarehouse(w, body) ==
    [w EXCEPT !.location = IF body.location.set THEN body.location.value ELSE @,
              !.max_capacity = IF body.max_capacity.set THEN body.max_capacity.value ELSE @]

(* A catalogue request is served in one step on a session of its own: it   *)
(* is accepted when no connection holds the write lock.                    *)
Accept(s, body) ==
    /\ pc[s] = "idle"
    /\ writer = NoSession
    /\ request' = [request EXCEPT ![s] = body]
    /\ before' = [before EXCEPT ![s] = Snapshot]
    /\ pc' = [pc EXCEPT ![s] = "done"]
    /\ UNCHANGED <<writer, delivery, pos, warehouse, identity, pending, txn,
                   created, served, removed, session, now, journal>>

Answer(s, status, made) ==
    /\ response' = [response EXCEPT ![s] =
           [NoResponse EXCEPT !.status = status]]
    /\ calls' = [calls EXCEPT ![s] = made]

(* The answer with a body: MaterialResponse, ProductResponse and           *)
(* WarehouseResponse are validated from the record's attributes; the       *)
(* capacity of a warehouse is computed from its stock relation.            *)
MaterialResponse(material) == [NoResponse EXCEPT !.entity = {material}]

ProductResponse(product) == [NoResponse EXCEPT !.entity = {product}]

WarehouseResponseSimple(w, rows) ==
    [NoResponse EXCEPT !.entity = {w},
                       !.capacity = WarehouseCapacity(w.max_capacity, Some(rows))]

WarehouseResponse(w, rows) ==
    [WarehouseResponseSimple(w, rows) EXCEPT !.stock = rows]

Return(s, status, made, body) ==
    /\ response' = [response EXCEPT ![s] = [body EXCEPT !.status = status]]
    /\ calls' = [calls EXCEPT ![s] = made]

(* CreatedAtMixin: created_at has the server default func.now(), the       *)
(* INSERT fills it with the database's clock.                              *)
CreatedAt(record, at) ==
    [f \in DOMAIN record \cup {"created_at"} |->
        IF f = "created_at" THEN at ELSE record[f]]

(* POST /materials/ *)
create_material(s, body) ==
    /\ Ids(materials) # Materials
    /\ Accept(s, body)
    /\ UNCHANGED <<stock, warehouses, products>>
    /\ IF ~MaterialCreateValid(body)
       THEN Answer(s, HTTP_422_UNPROCESSABLE, <<>>) /\ UNCHANGED materials
       ELSE LET record == Material(CHOOSE m \in Materials : m \notin Ids(materials), body)
            IN IF CheckViolation(record) \/ UniqueViolation(materials, record)
               THEN Answer(s, HTTP_409_CONFLICT, OnError(<<>>)) /\ UNCHANGED materials
               ELSE /\ materials' = materials \cup {CreatedAt(record, now)}
                    /\ Return(s, HTTP_201_CREATED, OnSuccess(<<>>),
                              MaterialResponse(CreatedAt(record, now)))

(* PATCH /materials/{slug} *)
update_material(s, body) ==
    /\ Accept(s, body)
    /\ UNCHANGED <<stock, warehouses, products>>
    /\ LET found == find_by_slug(materials, body.slug) IN
       IF ~MaterialPatchValid(body)
       THEN Answer(s, HTTP_422_UNPROCESSABLE, <<>>) /\ UNCHANGED materials
       ELSE IF found = {}
       THEN Answer(s, HTTP_404_NOT_FOUND, OnError(<<>>)) /\ UNCHANGED materials
       ELSE LET material == CHOOSE x \in found : TRUE IN
            /\ materials' = (materials \ {material}) \cup {PatchedMaterial(material, body)}
            /\ Return(s, HTTP_200_OK, OnSuccess(<<>>),
                      MaterialResponse(PatchedMaterial(material, body)))

(* POST /products/ *)
create_product(s, body) ==
    /\ Cardinality(products) < MaxProducts
    /\ Accept(s, body)
    /\ UNCHANGED <<stock, warehouses, materials>>
    /\ IF ~ProductCreateValid(body)
       THEN Answer(s, HTTP_422_UNPROCESSABLE, <<>>) /\ UNCHANGED products
       ELSE LET record == Product(NewId(Ids(products)), body)
            IN IF CheckViolation(record) \/ UniqueViolation(products, record)
               THEN Answer(s, HTTP_409_CONFLICT, OnError(<<>>)) /\ UNCHANGED products
               ELSE /\ products' = products \cup {CreatedAt(record, now)}
                    /\ Return(s, HTTP_201_CREATED, OnSuccess(<<>>),
                              ProductResponse(CreatedAt(record, now)))

(* PATCH /products/{slug}: ProductPatch has no field, nothing is assigned. *)
update_product(s, body) ==
    /\ Accept(s, body)
    /\ UNCHANGED <<stock, warehouses, materials, products>>
    /\ IF find_by_slug(products, body.slug) = {}
       THEN Answer(s, HTTP_404_NOT_FOUND, OnError(<<>>))
       ELSE Return(s, HTTP_200_OK, OnSuccess(<<>>),
                   ProductResponse(CHOOSE x \in find_by_slug(products, body.slug) : TRUE))

(* POST /warehouses/ *)
create_warehouse(s, body) ==
    /\ Cardinality(warehouses) < MaxWarehouses
    /\ Accept(s, body)
    /\ UNCHANGED <<stock, materials, products>>
    /\ IF ~WarehouseCreateValid(body)
       THEN Answer(s, HTTP_422_UNPROCESSABLE, <<>>) /\ UNCHANGED warehouses
       ELSE LET record == Warehouse(NewId(Ids(warehouses)), body)
            IN IF \/ CheckViolation(record)
                  \/ UniqueViolation(warehouses, record)
                  \/ LocationViolation(warehouses, record)
               THEN Answer(s, HTTP_409_CONFLICT, OnError(<<>>)) /\ UNCHANGED warehouses
               ELSE /\ warehouses' = warehouses \cup {CreatedAt(record, now)}
                    /\ Return(s, HTTP_201_CREATED, OnSuccess(<<>>),
                              WarehouseResponse(CreatedAt(record, now),
                                                StockOf(stock, record.id)))

(* PATCH /warehouses/{slug}: the lookup's failure is answered without a    *)
(* rollback; the IntegrityError of the flush is caught by no except        *)
(* clause, the request ends with 500 and the session is closed.            *)
update_warehouse(s, body) ==
    /\ Accept(s, body)
    /\ UNCHANGED <<stock, materials, products>>
    /\ LET found == find_by_slug(warehouses, body.slug) IN
       IF ~WarehousePatchValid(body)
       THEN Answer(s, HTTP_422_UNPROCESSABLE, <<>>) /\ UNCHANGED warehouses
       ELSE IF found = {}
       THEN Answer(s, HTTP_404_NOT_FOUND, <<>>) /\ UNCHANGED warehouses
       ELSE LET w == CHOOSE x \in found : TRUE
                patched == PatchedWarehouse(w, body)
            IN IF ~(body.location.set \/ body.max_capacity.set)
               THEN /\ Return(s, HTTP_200_OK, <<"rollback">>,
                              WarehouseResponseSimple(w, StockOf(stock, w.id)))
                    /\ UNCHANGED warehouses
               ELSE IF LocationViolation(warehouses, patched)
               THEN /\ Answer(s, HTTP_500_INTERNAL_SERVER_ERROR, <<>>)
                    /\ UNCHANGED warehouses
               ELSE /\ warehouses' = (warehouses \ {w}) \cup {patched}
                    /\ Return(s, HTTP_200_OK, OnSuccess(<<>>),
                              WarehouseResponseSimple(patched, StockOf(stock, w.id)))

(* SQLRepository.list_paginated: ORDER BY created_at OFFSET .. LIMIT ..    *)
(* The order of rows with the same created_at is the database's choice:    *)
(* the outcomes are the windows of every order the statement allows.       *)
Orderings(rows) ==
    {o \in [1..Cardinality(rows) -> rows] :
        /\ \A i, j \in DOMAIN o : i # j => o[i] # o[j]
        /\ \A i, j \in DOMAIN o : i < j => o[i].created_at <= o[j].created_at}

WindowFromStart(o, offset, limit) ==
    [i \in 1..(IF Len(o) - offset < limit THEN Len(o) - offset ELSE limit) |-> o[i]]

Window(o, offset, limit) ==
    [i \in 1..(IF Len(o) - offset < limit THEN Len(o) - offset ELSE limit) |->
        o[offset + i]]

list_paginated(rows, offset, limit) == {Window(o, offset, limit) : o \in Orderings(rows)}

(* Relationship(cascade_delete=True) of Warehouse.stock and                *)
(* Material.stock: the unit of work loads the children of a deleted        *)
(* parent and deletes them with it.  What is left of the children:         *)
CascadeDeleteAll(rows, key, id) == {}

CascadeDelete(rows, key, id) == {r \in rows : r[key] # id}

(* GET /materials/{slug} *)
get_material(s, body) ==
    /\ Accept(s, body)
    /\ UNCHANGED <<stock, warehouses, materials, products>>
    /\ LET found == find_by_slug(materials, body.slug) IN
       IF found = {}
       THEN Answer(s, HTTP_404_NOT_FOUND, OnError(<<>>))
       ELSE Return(s, HTTP_200_OK, <<"rollback">>,
                   MaterialResponse(CHOOSE x \in found : TRUE))

(* GET /products/{slug} *)
get_product(s, body) ==
    /\ Accept(s, body)
    /\ UNCHANGED <<stock, warehouses, materials, products>>
    /\ LET found == find_by_slug(products, body.slug) IN
       IF found = {}
       THEN Answer(s, HTTP_404_NOT_FOUND, OnError(<<>>))
       ELSE Return(s, HTTP_200_OK, <<"rollback">>,
                   ProductResponse(CHOOSE x \in found : TRUE))

(* GET /warehouses/{slug}: after the rollback the expired warehouse and    *)
(* its stock are read again for the answer.                                *)
get_warehouse(s, body) ==
    /\ Accept(s, body)
    /\ UNCHANGED <<stock, warehouses, materials, products>>
    /\ LET found == find_by_slug(warehouses, body.slug) IN
       IF found = {}
       THEN Answer(s, HTTP_404_NOT_FOUND, OnError(<<>>))
       ELSE LET w == CHOOSE x \in found : TRUE
            IN Return(s, HTTP_200_OK, <<"rollback">>,
                      WarehouseResponse(w, StockOf(stock, w.id)))

(* GET /materials/?offset=&limit= *)
list_materials(s, body) ==
    /\ Accept(s, body)
    /\ UNCHANGED <<stock, warehouses, materials, products>>
    /\ IF ~ListValid(body)
       THEN Answer(s, HTTP_422_UNPROCESSABLE, <<>>)
       ELSE \E page \in list_paginated(materials, body.offset, body.limit) :
               Return(s, HTTP_200_OK, <<"rollback">>, [NoResponse EXCEPT !.items = page])

(* GET /products/?offset=&limit= *)
list_products(s, body) ==
    /\ Accept(s, body)
    /\ UNCHANGED <<stock, warehouses, materials, products>>
    /\ IF ~ListValid(body)
       THEN Answer(s, HTTP_422_UNPROCESSABLE, <<>>)
       ELSE \E page \in list_paginated(products, body.offset, body.limit) :
               Return(s, HTTP_200_OK, <<"rollback">>, [NoResponse EXCEPT !.items = page])

(* GET /warehouses/?offset=&limit=: no rollback is called. *)
list_warehouses(s, body) ==
    /\ Accept(s, body)
    /\ UNCHANGED <<stock, warehouses, materials, products>>
    /\ IF ~ListValid(body)
       THEN Answer(s, HTTP_422_UNPROCESSABLE, <<>>)
       ELSE \E page \in list_paginated(warehouses, body.offset, body.limit) :
               Return(s, HTTP_200_OK, <<>>, [NoResponse EXCEPT !.items = page])

(* DELETE /materials/{slug}: the stock positions of the material go with it. *)
delete_material(s, body) ==
    /\ Accept(s, body)
    /\ UNCHANGED <<warehouses, products>>
    /\ LET found == find_by_slug(materials, body.slug) IN
       IF found = {}
       THEN Answer(s, HTTP_404_NOT_FOUND, OnError(<<>>)) /\ UNCHANGED <<materials, stock>>
       ELSE LET material == CHOOSE x \in found : TRUE IN
            /\ materials' = materials \ {material}
            /\ stock' = CascadeDelete(stock, "material_id", material.id)
            /\ Answer(s, HTTP_204_NO_CONTENT, OnSuccess(<<>>))

(* DELETE /products/{slug} *)
delete_product(s, body) ==
    /\ Accept(s, body)
    /\ UNCHANGED <<stock, warehouses, materials>>
    /\ LET found == find_by_slug(products, body.slug) IN
       IF found = {}
       THEN Answer(s, HTTP_404_NOT_FOUND, OnError(<<>>)) /\ UNCHANGED products
       ELSE /\ products' = products \ found
            /\ Answer(s, HTTP_204_NO_CONTENT, OnSuccess(<<>>))

delete_warehouseKeepsRow(s, body) ==
    /\ Accept(s, body)
    /\ UNCHANGED <<warehouses, stock, materials, products>>
    /\ IF find_by_slug(warehouses, body.slug) = {}
       THEN Answer(s, HTTP_404_NOT_FOUND, OnError(<<>>))
       ELSE Answer(s, HTTP_204_NO_CONTENT, OnSuccess(<<>>))

(* DELETE /warehouses/{slug}: the stock positions of the warehouse go with it. *)
delete_warehouse(s, body) ==
    /\ Accept(s, body)
    /\ UNCHANGED <<materials, products>>
    /\ LET found == find_by_slug(warehouses, body.slug) IN
       IF found = {}
       THEN Answer(s, HTTP_404_NOT_FOUND, OnError(<<>>)) /\ UNCHANGED <<warehouses, stock>>
       ELSE LET w == CHOOSE x \in found : TRUE IN
            /\ warehouses' = warehouses \ {w}
            /\ stock' = CascadeDelete(stock, "warehouse_id", w.id)
            /\ Answer(s, HTTP_204_NO_CONTENT, OnSuccess(<<>>))

---------------------------------------------------------------------------
(* The repository on its own: a caller opens a Session, constructs a       *)
(* StockPositionSQLRepository, binds it with use_session or forgets to,    *)
(* calls its operations, and ends with session.commit() or                 *)
(* session.rollback().                                                     *)

(* RepositoryException is the one exception class of the repositories; the *)
(* failures differ in their message only.                                  *)
RepositoryException(message) == [type |-> "RepositoryException", message |-> message]

SessionNotInitialized == RepositoryException("database session not initialized")
NotFound == RepositoryException("stock position not found")
NoSlugAttribute == RepositoryException("stock position have not got 'slug' attribute.")

(* `except RepositoryException`: how the callers of find_by_id,            *)
(* find_by_slug and find_by_warehouse_id_and_material_id branch on         *)
(* "not found".                                                            *)
ExceptRepositoryException(exc) == exc.type = "RepositoryException"

(* The records a caller passes: positions of warehouse 1, one unit. *)
Records == {StockPosition(NewId(UsedIds), 1, m, 1) : m \in Materials}

RepositoryOpen(s, bind) ==
    /\ pc[s] = "idle"
    /\ pc' = [pc EXCEPT ![s] = "repository"]
    /\ request' = [request EXCEPT ![s] = [NoBody EXCEPT !.op = "repository"]]
    /\ before' = [before EXCEPT ![s] = Snapshot]
    /\ session' = [session EXCEPT ![s] = IF bind THEN s ELSE NoSession]
    /\ UNCHANGED <<warehouses, materials, products, stock, writer, delivery, pos, warehouse,
                   identity, pending, txn, response, created, calls, served, removed, now,
                   journal>>

(* A call of an operation by the caller on session s; the request keeps    *)
(* the name of the last operation called.                                  *)
Call(s, name) ==
    /\ pc[s] = "repository"
    /\ pos[s] < MaxCalls
    /\ pos' = [pos EXCEPT ![s] = @ + 1]
    /\ request' = [request EXCEPT ![s].op = name]
    /\ UNCHANGED <<warehouses, materials, products, pc, delivery, warehouse, identity,
                   pending, before, created, calls, served, session, now, journal>>

Raises(s, exc) ==
    response' = [response EXCEPT ![s] = [NoResponse EXCEPT !.raised = exc]]

Returns(s, rows) ==
    response' = [response EXCEPT ![s] = [NoResponse EXCEPT !.entity = rows]]

(* A query flushes the session first: the DELETE of a marked row takes the *)
(* write lock.                                                             *)
Autoflush(s) ==
    /\ removed[s] # {} => writer \in {NoSession, s}
    /\ writer' = IF removed[s] # {} THEN s ELSE writer

repository_find_by_id(s, id) ==
    /\ Call(s, "find_by_id")
    /\ UNCHANGED <<stock, txn, removed>>
    /\ IF session[s] = NoSession
       THEN Raises(s, SessionNotInitialized) /\ UNCHANGED writer
       ELSE /\ Autoflush(s)
            /\ LET found == {r \in View(s) : r.id = id} IN
               IF found = {} THEN Raises(s, NotFound) ELSE Returns(s, found)

(* StockPosition has no slug. *)
repository_find_by_slug(s, slug) ==
    /\ Call(s, "find_by_slug")
    /\ UNCHANGED <<stock, writer, txn, removed>>
    /\ IF session[s] = NoSession
       THEN Raises(s, SessionNotInitialized)
       ELSE Raises(s, NoSlugAttribute)

repository_find_by_warehouse_id_and_material_id(s, warehouse_id, material_id) ==
    /\ Call(s, "find_by_warehouse_id_and_material_id")
    /\ UNCHANGED <<stock, txn, removed>>
    /\ IF session[s] = NoSession
       THEN Raises(s, SessionNotInitialized) /\ UNCHANGED writer
       ELSE /\ Autoflush(s)
            /\ LET found == find_by_warehouse_id_and_material_id(
                                View(s), warehouse_id, material_id)
               IN IF found = {} THEN Raises(s, NotFound)
                  ELSE IF Cardinality(found) > 1
                  THEN Raises(s, [type |-> "MultipleResultsFound", message |-> "none"])
                  ELSE Returns(s, found)

(* The creation timestamps of stock positions are not kept: the rows come  *)
(* in any order.                                                           *)
repository_list_paginated(s, offset, limit) ==
    /\ Call(s, "list_paginated")
    /\ UNCHANGED <<stock, txn, removed>>
    /\ IF session[s] = NoSession
       THEN Raises(s, SessionNotInitialized) /\ UNCHANGED writer
       ELSE /\ Autoflush(s)
            /\ \E page \in list_paginated({CreatedAt(r, 0) : r \in View(s)}, offset, limit) :
                  response' = [response EXCEPT ![s] = [NoResponse EXCEPT !.items = page]]

(* A create that commits on its own. *)
repository_createCommits(s, record) ==
    /\ Call(s, "create")
    /\ UNCHANGED <<removed, txn>>
    /\ IF session[s] = NoSession
       THEN Raises(s, SessionNotInitialized) /\ UNCHANGED <<writer, stock>>
       ELSE /\ writer \in {NoSession, s}
            /\ writer' = writer
            /\ IF IntegrityViolation(View(s), record)
               THEN Raises(s, [type |-> "IntegrityError", message |-> "none"])
                        /\ UNCHANGED stock
               ELSE /\ stock' = stock \cup {record}
                    /\ Returns(s, {record})

(* session.add(record); session.flush() *)
repository_create(s, record) ==
    /\ Call(s, "create")
    /\ UNCHANGED <<stock, removed>>
    /\ IF session[s] = NoSession
       THEN Raises(s, SessionNotInitialized) /\ UNCHANGED <<writer, txn>>
       ELSE /\ writer \in {NoSession, s}
            /\ writer' = s
            /\ IF IntegrityViolation(View(s), record)
               THEN Raises(s, [type |-> "IntegrityError", message |-> "none"])
                        /\ UNCHANGED txn
               ELSE /\ txn' = [txn EXCEPT ![s] = @ \cup {record}]
                    /\ Returns(s, {record})

repository_update(s, record) ==
    /\ Call(s, "update")
    /\ UNCHANGED <<stock, removed>>
    /\ IF session[s] = NoSession
       THEN Raises(s, SessionNotInitialized) /\ UNCHANGED <<writer, txn>>
       ELSE /\ writer \in {NoSession, s}
            /\ writer' = s
            /\ txn' = [txn EXCEPT ![s] = {r \in @ : r.id # record.id} \cup {record}]
            /\ Returns(s, {record})

(* session.delete(record): the row is marked, no statement is sent yet. *)
repository_delete(s, record) ==
    /\ Call(s, "delete")
    /\ UNCHANGED <<stock, writer, txn>>
    /\ IF session[s] = NoSession
       THEN Raises(s, SessionNotInitialized) /\ UNCHANGED removed
       ELSE /\ removed' = [removed EXCEPT ![s] = @ \cup {record.id}]
            /\ Returns(s, {})

(* The caller ends its transaction. *)
RepositoryCommit(s) ==
    /\ pc[s] = "repository"
    /\ removed[s] # {} => writer \in {NoSession, s}
    /\ stock' = AfterDelete(AfterCommit(stock, txn[s]), removed[s])
    /\ writer' = Release(s)
    /\ txn' = [txn EXCEPT ![s] = {}]
    /\ removed' = [removed EXCEPT ![s] = {}]
    /\ calls' = [calls EXCEPT ![s] = OnSuccess(@)]
    /\ pc' = [pc EXCEPT ![s] = "done"]
    /\ UNCHANGED <<warehouses, materials, products, request, delivery, pos, warehouse,
                   identity, pending, response, before, created, served, session, now,
                   journal>>

RepositoryRollback(s) ==
    /\ pc[s] = "repository"
    /\ stock' = AfterRollback(stock, txn[s])
    /\ writer' = Release(s)
    /\ txn' = [txn EXCEPT ![s] = {}]
    /\ removed' = [removed EXCEPT ![s] = {}]
    /\ calls' = [calls EXCEPT ![s] = OnError(@)]
    /\ pc' = [pc EXCEPT ![s] = "done"]
    /\ UNCHANGED <<warehouses, materials, products, request, delivery, pos, warehouse,
                   identity, pending, response, before, created, served, session, now,
                   journal>>

---------------------------------------------------------------------------
(* Time. *)

(* The database's clock moves on between two requests. *)
Tick ==
    /\ now < MaxClock
    /\ now' = now + 1
    /\ UNCHANGED <<warehouses, materials, products, stock, writer, pc, request, delivery,
                   pos, warehouse, identity, pending, txn, response, before, created,
                   calls, served, removed, session, journal>>

---------------------------------------------------------------------------
(* Specifications. *)

(* One server process: a handler is `async def` without an await, so a     *)
(* request is served to its end before the next one starts.                *)
NoRequest == \A s \in Sessions : pc[s] = "idle"

(* Sessions are interchangeable: a new request takes a session that is     *)
(* not in use.                                                             *)
FreeSession == CHOOSE s \in Sessions : pc[s] = "idle"

SerialSteps ==
    \/ \E s \in Sessions : DeliveryCheckCapacity(s)
    \/ \E s \in Sessions : DeliveryFindStock(s)
    \/ \E s \in Sessions : DeliveryFlush(s)
    \/ \E s \in Sessions : DeliveryCommit(s)
    \/ \E s \in Sessions : DeliveryRespond(s)
    \/ \E s \in Sessions : SessionClose(s)
    \/ \E c \in Capacities : NoRequest /\ create_warehouse(FreeSession, TestWarehouse(c))

Next ==
    \/ \E d \in Deliveries : NoRequest /\ DeliveryBegin(FreeSession, d)
    \/ SerialSteps

Spec == Init /\ [][Next]_vars

(* The same, with the requests the specification allows: quantities >= 0. *)
NextNonNeg ==
    \/ \E d \in NonNegDeliveries : NoRequest /\ DeliveryBegin(FreeSession, d)
    \/ SerialSteps

SpecNonNeg == Init /\ [][NextNonNeg]_vars

(* Several server processes on the same database file: the handlers'       *)
(* statements interleave, the database serialises the writers.             *)
NextInterleaved ==
    \/ \E d \in InterleavedDeliveries :
          (\E s \in Sessions : pc[s] = "idle") /\ DeliveryBegin(FreeSession, d)
    \/ \E s \in Sessions : DeliveryCheckCapacity(s)
    \/ \E s \in Sessions : DeliveryFindStock(s)
    \/ \E s \in Sessions : DeliveryFlush(s)
    \/ \E s \in Sessions : DeliveryFlushLocked(s)
    \/ \E s \in Sessions : DeliveryCommit(s)
    \/ \E s \in Sessions : DeliveryRespond(s)
    \/ \E s \in Sessions : SessionClose(s)
    \/ \E c \in Capacities :
          (\E s \in Sessions : pc[s] = "idle")
              /\ create_warehouse(FreeSession, TestWarehouse(c))

SpecInterleaved == Init /\ [][NextInterleaved]_vars

(* The same for deliveries of one line item of one material, whose         *)
(* statements interleave, and a last delivery of any line items, served    *)
(* when the others are over.                                               *)
RepeatedDeliveries ==
    {d \in InterleavedDeliveries :
        \A i \in DOMAIN d.positions : d.positions[i].material_id = "hydrogen"}

NextRepeated ==
    \/ \E d \in RepeatedDeliveries :
          (\E s \in Sessions : pc[s] = "idle")
              /\ DeliveryBeginUpTo(FreeSession, d, MaxDeliveries + 1)
    \/ \E d \in NonNegDeliveries :
          /\ NoRequest /\ served = MaxDeliveries
          /\ DeliveryBeginUpTo(FreeSession, d, MaxDeliveries + 1)
    \/ \E s \in Sessions : DeliveryCheckCapacity(s)
    \/ \E s \in Sessions : DeliveryFindStock(s)
    \/ \E s \in Sessions : DeliveryFlush(s)
    \/ \E s \in Sessions : DeliveryFlushLocked(s)
    \/ \E s \in Sessions : DeliveryCommit(s)
    \/ \E s \in Sessions : DeliveryRespond(s)
    \/ \E s \in Sessions : SessionClose(s)
    \/ \E c \in Capacities :
          (\E s \in Sessions : pc[s] = "idle")
              /\ create_warehouse(FreeSession, TestWarehouse(c))

SpecRepeated == Init /\ [][NextRepeated]_vars

(* Requests served one at a time, with primary keys that may repeat. *)
NextIdCollision ==
    \/ NextNonNeg
    \/ \E s \in Sessions : DeliveryFindStockCollision(s)

SpecIdCollision == Init /\ [][NextIdCollision]_vars

(* The catalogue alone: creations and patches with the names, units,       *)
(* locations and capacities of the input sets, served one at a time.       *)
NextCatalog ==
    \/ \E body \in MaterialCreates : NoRequest /\ create_material(FreeSession, body)
    \/ \E body \in MaterialPatches : NoRequest /\ update_material(FreeSession, body)
    \/ \E body \in ProductCreates : NoRequest /\ create_product(FreeSession, body)
    \/ \E body \in ProductPatches : NoRequest /\ update_product(FreeSession, body)
    \/ \E body \in WarehouseCreates : NoRequest /\ create_warehouse(FreeSession, body)
    \/ \E body \in WarehousePatches : NoRequest /\ update_warehouse(FreeSession, body)
    \/ \E s \in Sessions : SessionClose(s)

SpecCatalog == Init /\ [][NextCatalog]_vars

(* The inventory: the catalogue as the tests' fixtures create it, patches, *)
(* and deliveries of one unit, served one at a time.                       *)
InventoryDeliveries ==
    {d \in InterleavedDeliveries : \A i \in 1..Len(d.positions) : d.positions[i].quantity = 1}

NextInventory ==
    \/ \E u \in QuantityUnits : NoRequest /\ create_material(FreeSession, TestMaterial(u))
    \/ \E body \in MaterialPatches : NoRequest /\ update_material(FreeSession, body)
    \/ NoRequest /\ create_product(FreeSession, TestProduct)
    \/ \E body \in ProductPatches : NoRequest /\ update_product(FreeSession, body)
    \/ \E c \in Capacities : NoRequest /\ create_warehouse(FreeSession, TestWarehouse(c))
    \/ \E body \in WarehousePatches : NoRequest /\ update_warehouse(FreeSession, body)
    \/ \E d \in InventoryDeliveries : NoRequest /\ DeliveryBegin(FreeSession, d)
    \/ \E s \in Sessions : DeliveryCheckCapacity(s)
    \/ \E s \in Sessions : DeliveryFindStock(s)
    \/ \E s \in Sessions : DeliveryFlush(s)
    \/ \E s \in Sessions : DeliveryCommit(s)
    \/ \E s \in Sessions : DeliveryRespond(s)
    \/ \E s \in Sessions : SessionClose(s)

SpecInventory == Init /\ [][NextInventory]_vars

(* The inventory over its life: entities are also read, listed and         *)
(* deleted.                                                                *)
NextLifecycle ==
    \/ NextInventory
    \/ \E body \in BySlug("get_material") : NoRequest /\ get_material(FreeSession, body)
    \/ \E body \in BySlug("get_product") : NoRequest /\ get_product(FreeSession, body)
    \/ \E body \in BySlug("get_warehouse") : NoRequest /\ get_warehouse(FreeSession, body)
    \/ NoRequest /\ list_materials(FreeSession, DefaultListing("list_materials"))
    \/ NoRequest /\ list_products(FreeSession, DefaultListing("list_products"))
    \/ NoRequest /\ list_warehouses(FreeSession, DefaultListing("list_warehouses"))
    \/ \E body \in BySlug("delete_material") :
          NoRequest /\ delete_material(FreeSession, body)
    \/ \E body \in BySlug("delete_product") :
          NoRequest /\ delete_product(FreeSession, body)
    \/ \E body \in BySlug("delete_warehouse") :
          NoRequest /\ delete_warehouse(FreeSession, body)

SpecLifecycle == Init /\ [][NextLifecycle]_vars

(* Warehouses and what they report: deliveries with quantities >= 0 to    *)
(* warehouses created with a max_capacity or without one, and reads.       *)
NextCapacity ==
    \/ NextNonNeg
    \/ NoRequest /\ create_warehouse(FreeSession,
                         [TestWarehouse(1) EXCEPT !.max_capacity = NoNumber])
    \/ \E body \in BySlug("get_warehouse") : NoRequest /\ get_warehouse(FreeSession, body)

SpecCapacity == Init /\ [][NextCapacity]_vars

(* Round trips: the first requests a fresh service is sent, each a         *)
(* creation of a fixture or a read, an empty patch or a deletion by slug,  *)
(* kept in the journal with their answers.                                 *)
NextRoundTrip ==
    \/ \E u \in QuantityUnits : NoRequest /\ create_material(FreeSession, TestMaterial(u))
    \/ NoRequest /\ create_product(FreeSession, TestProduct)
    \/ \E c \in Capacities : NoRequest /\ create_warehouse(FreeSession, TestWarehouse(c))
    \/ \E body \in RoundTrip("get_material") : NoRequest /\ get_material(FreeSession, body)
    \/ \E body \in RoundTrip("get_product") : NoRequest /\ get_product(FreeSession, body)
    \/ \E body \in RoundTrip("get_warehouse") : NoRequest /\ get_warehouse(FreeSession, body)
    \/ \E body \in RoundTrip("update_material") :
          NoRequest /\ update_material(FreeSession, body)
    \/ \E body \in RoundTrip("update_product") :
          NoRequest /\ update_product(FreeSession, body)
    \/ \E body \in RoundTrip("update_warehouse") :
          NoRequest /\ update_warehouse(FreeSession, body)
    \/ \E body \in RoundTrip("delete_material") :
          NoRequest /\ delete_material(FreeSession, body)
    \/ \E body \in RoundTrip("delete_product") :
          NoRequest /\ delete_product(FreeSession, body)
    \/ \E body \in RoundTrip("delete_warehouse") :
          NoRequest /\ delete_warehouse(FreeSession, body)
    \/ \E s \in Sessions : SessionCloseLogged(s)

SpecRoundTrip == Init /\ [][NextRoundTrip]_vars

(* Listings: fixtures are created and deleted while the database's clock   *)
(* moves on, and listed through every window.                              *)
NextListing ==
    \/ Tick
    \/ \E u \in QuantityUnits : NoRequest /\ create_material(FreeSession, TestMaterial(u))
    \/ NoRequest /\ create_product(FreeSession, TestProduct)
    \/ \E c \in Capacities : NoRequest /\ create_warehouse(FreeSession, TestWarehouse(c))
    \/ \E body \in BySlug("delete_product") :
          NoRequest /\ delete_product(FreeSession, body)
    \/ \E body \in Listings("list_materials") :
          NoRequest /\ list_materials(FreeSession, body)
    \/ \E body \in Listings("list_products") :
          NoRequest /\ list_products(FreeSession, body)
    \/ \E body \in Listings("list_warehouses") :
          NoRequest /\ list_warehouses(FreeSession, body)
    \/ \E s \in Sessions : SessionClose(s)

SpecListing == Init /\ [][NextListing]_vars

(* Callers of the stock position repository, each on a session of its own. *)
(* A bound caller updates or deletes a record it has read; an unbound one  *)
(* has only records it was handed.  A caller runs alone, or, bound, while  *)
(* the other one waits in its transaction holding the write lock.          *)
Handed(s) == IF session[s] = NoSession THEN stock \cup Records ELSE View(s)

Alone(s) == \A t \in Sessions \ {s} : pc[t] = "idle"

Turn(s) == Alone(s) \/ writer \notin {NoSession, s}

NextRepository ==
    \/ \E s \in Sessions, bind \in BOOLEAN :
          Turn(s) /\ (Alone(s) \/ bind) /\ RepositoryOpen(s, bind)
    \/ \E s \in Sessions, id \in 1..MaxRows : Turn(s) /\ repository_find_by_id(s, id)
    \/ \E s \in Sessions : Turn(s) /\ repository_find_by_slug(s, slugify(TestNames[1]))
    \/ \E s \in Sessions, m \in Materials :
          Turn(s) /\ repository_find_by_warehouse_id_and_material_id(s, 1, m)
    \/ \E s \in Sessions : Turn(s) /\ repository_list_paginated(s, 0, MaxLimit)
    \/ \E s \in Sessions, record \in Records :
          Turn(s) /\ Cardinality(UsedIds) < MaxRows /\ repository_create(s, record)
    \/ \E s \in Sessions : \E r \in Handed(s) :
          Turn(s) /\ r.quantity < MaxQuantity /\ repository_update(s, Incremented(r, 1))
    \/ \E s \in Sessions : \E r \in Handed(s) : Turn(s) /\ repository_delete(s, r)
    \/ \E s \in Sessions : Turn(s) /\ RepositoryCommit(s)
    \/ \E s \in Sessions : Turn(s) /\ RepositoryRollback(s)
    \/ \E s \in Sessions : SessionClose(s)

SpecRepository == Init /\ [][NextRepository]_vars

---------------------------------------------------------------------------
(* Properties of the delivery operation. *)

Answered(s) == pc[s] = "done" /\ request[s].op = "delivery"
Succeeded(s) == Answered(s) /\ response[s].status = HTTP_201_CREATED

(* The warehouse the request of s names, as committed when it began. *)
TargetBefore(s) == {w \in before[s].warehouses : w.id = delivery[s].warehouse_id}

RECURSIVE SumFor(_, _)
SumFor(ps, m) ==
    IF ps = <<>> THEN 0
    ELSE (IF Head(ps).material_id = m THEN Head(ps).quantity ELSE 0)
             + SumFor(Tail(ps), m)

Names(ps, m) == \E i \in 1..Len(ps) : ps[i].material_id = m

CommittedCapacity(w) == capacity(w.max_capacity, StockOf(stock, w.id))

(* C1: after any sequence of successful deliveries with quantities >= 0,   *)
(* every warehouse has capacity >= 0: max_capacity minus the sum of the    *)
(* quantities of its committed stock positions is not negative.            *)
C1_CapacityNonNegative == \A w \in warehouses : CommittedCapacity(w) >= 0

(* C2: a delivery for which the existing stock of the warehouse plus the   *)
(* delivered quantities exceeds max_capacity is answered CapacityExceeded  *)
(* (400), also when each line item alone fits.                             *)
C2_OverflowingDeliveryFails ==
    \A s \in Sessions : Answered(s) =>
        \A w \in TargetBefore(s) :
            SumQuantity(StockOf(before[s].stock, w.id))
                + SumPositions(delivery[s].positions) > w.max_capacity
            => response[s].status = HTTP_400_BAD_REQUEST

(* C3: rollback completeness.  When a delivery is answered                 *)
(* CapacityExceeded at a line item k > 1, the committed stock positions    *)
(* (rows and quantities), the warehouses and so the capacity are those of  *)
(* before the call.                                                        *)
C3_RollbackComplete ==
    \A s \in Sessions :
        (Answered(s) /\ response[s].status = HTTP_400_BAD_REQUEST /\ pos[s] > 1) =>
            /\ stock = before[s].stock
            /\ warehouses = before[s].warehouses
            /\ \A w \in TargetBefore(s) :
                   CommittedCapacity(w) =
                       capacity(w.max_capacity, StockOf(before[s].stock, w.id))

(* A delivery refused at its second line item after its first line item    *)
(* was flushed as a creation with a positive quantity.                     *)
C3_Witness ==
    \E s \in Sessions :
        /\ Answered(s) /\ response[s].status = HTTP_400_BAD_REQUEST
        /\ pos[s] = 2
        /\ created[s] # {}
        /\ delivery[s].positions[1].quantity > 0

(* C4: for every delivery that succeeds, the sum of the stock quantities   *)
(* of the target warehouse afterwards is the sum before plus the sum of    *)
(* the quantities of all its line items.                                   *)
C4_SumAfterSuccess ==
    \A s \in Sessions : Succeeded(s) =>
        SumQuantity(StockOf(stock, delivery[s].warehouse_id))
            = SumQuantity(StockOf(before[s].stock, delivery[s].warehouse_id))
                  + SumPositions(delivery[s].positions)

(* A successful delivery of two line items with a positive sum to a        *)
(* warehouse that already held stock.                                      *)
C4_Witness ==
    \E s \in Sessions :
        /\ Succeeded(s)
        /\ Len(delivery[s].positions) = 2
        /\ SumPositions(delivery[s].positions) > 0
        /\ SumQuantity(StockOf(before[s].stock, delivery[s].warehouse_id)) > 0

(* C5: after a successful delivery, for each material m of the delivery    *)
(* there is one stock position (warehouse, m); it is the row that existed  *)
(* before, incremented by the line items for m, or a row the delivery      *)
(* created, holding exactly the line items for m.  The positions of a      *)
(* material the delivery does not name are as before.                      *)
C5_UpsertPerMaterial ==
    \A s \in Sessions : Succeeded(s) =>
        \A m \in Materials :
            LET w == delivery[s].warehouse_id
                b == find_by_warehouse_id_and_material_id(before[s].stock, w, m)
                a == find_by_warehouse_id_and_material_id(stock, w, m)
            IN IF ~Names(delivery[s].positions, m)
               THEN a = b
               ELSE /\ Cardinality(a) = 1
                    /\ SumQuantity(a) = SumQuantity(b) + SumFor(delivery[s].positions, m)
                    /\ b # {} => Ids(a) = Ids(b)
                    /\ b = {} => Ids(a) \subseteq created[s]

(* A successful delivery that incremented one existing position and        *)
(* created another.                                                        *)
C5_Witness ==
    \E s \in Sessions :
        /\ Succeeded(s)
        /\ \E i, j \in 1..Len(delivery[s].positions) :
              LET w == delivery[s].warehouse_id
                  ps == delivery[s].positions
              IN /\ find_by_warehouse_id_and_material_id(
                        before[s].stock, w, ps[i].material_id) # {}
                 /\ find_by_warehouse_id_and_material_id(
                        before[s].stock, w, ps[j].material_id) = {}
                 /\ ps[i].quantity > 0 /\ ps[j].quantity > 0

(* C6: deliveries served one after another leave at most one stock         *)
(* position per (warehouse_id, material_id).                               *)
C6_OneRowPerPair ==
    \A r1, r2 \in stock :
        (r1.warehouse_id = r2.warehouse_id /\ r1.material_id = r2.material_id)
            => r1 = r2

(* A second delivery of a material, naming it in both of its line items,   *)
(* has succeeded.                                                          *)
C6_Witness ==
    \E s \in Sessions :
        /\ Succeeded(s)
        /\ Len(delivery[s].positions) = 2
        /\ delivery[s].positions[1].material_id = delivery[s].positions[2].material_id
        /\ find_by_warehouse_id_and_material_id(before[s].stock,
               delivery[s].warehouse_id, delivery[s].positions[1].material_id) # {}

(* C7: interleaved deliveries are never answered Conflict, and every       *)
(* stock position a successful delivery constructed is a committed row of  *)
(* its own: two deliveries that both found no position for a pair leave    *)
(* two rows for it.                                                        *)
C7_ConcurrentCreationsBothCommitted ==
    /\ \A s \in Sessions :
           request[s].op = "delivery" => response[s].status # HTTP_409_CONFLICT
    /\ \A s \in Sessions : Succeeded(s) =>
           \A i \in created[s] :
               \E r \in stock :
                   /\ r.id = i
                   /\ r.warehouse_id = delivery[s].warehouse_id
                   /\ Names(delivery[s].positions, r.material_id)

(* Both deliveries succeeded and each committed a row it created for the   *)
(* same pair.                                                              *)
C7_Witness ==
    \E s, t \in Sessions :
        /\ s # t /\ Succeeded(s) /\ Succeeded(t)
        /\ \E r1, r2 \in stock :
              /\ r1.id \in created[s] /\ r2.id \in created[t]
              /\ r1.warehouse_id = r2.warehouse_id
              /\ r1.material_id = r2.material_id

(* C8: a delivery whose warehouse_id matches no warehouse is answered      *)
(* NotFound (404), with no stock position staged or committed.             *)
C8_UnknownWarehouseIsNotFound ==
    \A s \in Sessions : (Answered(s) /\ TargetBefore(s) = {}) =>
        /\ response[s].status = HTTP_404_NOT_FOUND
        /\ created[s] = {}
        /\ stock = before[s].stock

(* C9: every committed stock position has quantity >= 0. *)
C9_QuantityNonNegative == \A r \in stock : r.quantity >= 0

(* C10: a delivery with a negative quantity is rejected by validation      *)
(* before the warehouse is loaded: nothing is staged, created or changed.  *)
C10_NegativeQuantityRejected ==
    \A s \in Sessions :
        (pc[s] # "idle"
            /\ \E i \in 1..Len(delivery[s].positions) :
                   delivery[s].positions[i].quantity < 0) =>
            /\ Answered(s)
            /\ response[s].status = HTTP_422_UNPROCESSABLE
            /\ created[s] = {}
            /\ stock = before[s].stock


---------------------------------------------------------------------------
(* Properties of the handler's paths and of its answer. *)

Lines(s) == delivery[s].positions

(* The capacity of the warehouse session s works on, over the rows its     *)
(* transaction sees: the committed rows and what it has flushed.           *)
CurrentCapacity(s) ==
    warehouse[s].max_capacity
        - SumQuantity({r \in View(s) : r.warehouse_id = warehouse[s].id})

(* C11: every execution of the delivery handler ends either with exactly   *)
(* one commit, made after all line items passed, and the success answer,   *)
(* or with exactly one rollback and an error answer; no execution both     *)
(* commits and fails, and no error is answered without a rollback.         *)
C11_CommitOrRollback ==
    \A s \in Sessions :
        /\ Len(calls[s]) <= 1
        /\ pc[s] = "respond" => calls[s] = <<"commit">>
        /\ Answered(s) /\ response[s].status # HTTP_422_UNPROCESSABLE =>
              \/ /\ response[s].status = HTTP_201_CREATED
                 /\ calls[s] = <<"commit">>
                 /\ pos[s] = Len(Lines(s)) + 1
              \/ /\ response[s].status # HTTP_201_CREATED
                 /\ calls[s] = <<"rollback">>
                 /\ stock = before[s].stock

C11_Witness ==
    \E s \in Sessions :
        /\ Answered(s)
        /\ response[s].status = HTTP_400_BAD_REQUEST
        /\ created[s] # {}
        /\ calls[s] = <<"rollback">>

(* C12: a successful delivery answers the warehouse as committed: the      *)
(* capacity answered is max_capacity minus the sum of the committed        *)
(* quantities of the warehouse, the stock answered is its committed rows.  *)
C12_ResponseIsCommittedState ==
    \A s \in Sessions :
        Succeeded(s) =>
            \E w \in warehouses :
                LET rows == {r \in stock : r.warehouse_id = w.id} IN
                /\ w.id = delivery[s].warehouse_id
                /\ response[s].stock = rows
                /\ response[s].capacity = w.max_capacity - SumQuantity(rows)

C12_Witness ==
    \E s \in Sessions :
        /\ Succeeded(s)
        /\ created[s] # {}
        /\ \E r \in before[s].stock :
               /\ r.warehouse_id = delivery[s].warehouse_id
               /\ r \notin stock
        /\ response[s].capacity < CHOOSE c \in {w.max_capacity : w \in TargetBefore(s)} : TRUE

(* C14: when the INSERT of a delivery violates a constraint of the store   *)
(* (the primary key of stockposition) the delivery is answered Conflict    *)
(* after a rollback: nothing of the delivery is committed, the rows staged *)
(* for its earlier line items included.                                    *)
C14_Step ==
    \A s \in Sessions :
        (/\ pc[s] = "flush"
         /\ pending[s].kind = "insert"
         /\ pending[s].id \in Ids(View(s)))
        => /\ pc'[s] = "done"
           /\ response'[s].status = HTTP_409_CONFLICT
           /\ calls'[s] = <<"rollback">>
           /\ txn'[s] = {}
           /\ stock' = before[s].stock

C14_IntegrityErrorIsConflict == [][C14_Step]_vars

C14_Witness ==
    \E s \in Sessions :
        /\ Answered(s)
        /\ response[s].status = HTTP_409_CONFLICT
        /\ pos[s] = 2
        /\ stock = before[s].stock
        /\ stock # {}

(* C15: a delivery with no line items to an existing warehouse succeeds    *)
(* whatever the capacity is, changes no table, and answers the stock and   *)
(* the capacity the warehouse had before.                                  *)
C15_EmptyDeliveryChangesNothing ==
    \A s \in Sessions :
        Answered(s) /\ Len(Lines(s)) = 0 =>
            \A w \in TargetBefore(s) :
                LET rows == {r \in before[s].stock : r.warehouse_id = w.id} IN
                /\ response[s].status = HTTP_201_CREATED
                /\ stock = before[s].stock
                /\ warehouses = before[s].warehouses
                /\ response[s].stock = rows
                /\ response[s].capacity = w.max_capacity - SumQuantity(rows)

C15_Witness ==
    \E s \in Sessions :
        /\ Succeeded(s)
        /\ Len(Lines(s)) = 0
        /\ response[s].stock # {}
        /\ response[s].capacity < 0

(* C16: a line item of quantity 0 passes the capacity check whenever the   *)
(* current capacity is >= 0, zero included; it then creates a stock        *)
(* position of quantity 0 when the pair has none and leaves an existing    *)
(* one as it is, and the capacity is the same after the line item.         *)
C16_ZeroQuantityStep(s) ==
    LET p == Lines(s)[pos[s]]
        had == {r \in View(s) : /\ r.warehouse_id = warehouse[s].id
                                /\ r.material_id = p.material_id}
    IN  /\ pc[s] = "check" /\ CurrentCapacity(s) >= 0 => pc'[s] = "find"
        /\ pc[s] = "find" => pc'[s] = "flush" /\ View(s)' = View(s)
        /\ pc[s] = "flush" =>
              /\ pc'[s] \in {"check", "commit"}
              /\ CurrentCapacity(s)' = CurrentCapacity(s)
              /\ IF had = {}
                 THEN \E r \in View(s)' :
                          /\ r.warehouse_id = warehouse[s].id
                          /\ r.material_id = p.material_id
                          /\ r.quantity = 0
                          /\ View(s)' = View(s) \cup {r}
                 ELSE View(s)' = View(s)

C17_ExactFill ==
    \A s \in Sessions :
        Answered(s) =>
            \A w \in TargetBefore(s) :
                (SumQuantity({r \in before[s].stock : r.warehouse_id = w.id})
                     + SumPositions(Lines(s)) = w.max_capacity)
                => /\ response[s].status = HTTP_201_CREATED
                   /\ SumQuantity({r \in stock : r.warehouse_id = w.id})
                          = w.max_capacity

C17_RejectedOnlyAbove ==
    \A s \in Sessions :
        (pc[s] = "check" /\ pc'[s] = "done")
            => /\ response'[s].status = HTTP_400_BAD_REQUEST
               /\ Lines(s)[pos[s]].quantity > CurrentCapacity(s)

---------------------------------------------------------------------------
(* Properties of the catalogue. *)

Served(s, op) == pc[s] = "done" /\ request[s].op = op

CatalogUnchanged(s) ==
    /\ warehouses = before[s].warehouses
    /\ materials = before[s].materials
    /\ products = before[s].products
    /\ stock = before[s].stock

UniqueNamed(rows) ==
    \A a, b \in rows : a # b => a.id # b.id /\ a.name # b.name /\ a.slug # b.slug

Clashes(rows, name) ==
    \E r \in rows : r.name = name \/ r.slug = slugify(name)

(* C13: no committed stock position references a material that does not    *)
(* exist, and a delivery naming a material_id of no material fails with    *)
(* NotFound or Conflict and leaves the stock as it was.                    *)
C13_MaterialsExist ==
    /\ \A r \in stock : \E m \in materials : m.id = r.material_id
    /\ \A s \in Sessions :
           (/\ Answered(s)
            /\ TargetBefore(s) # {}
            /\ \E i \in 1..Len(Lines(s)) :
                   Lines(s)[i].material_id \notin Ids(before[s].materials))
           => /\ response[s].status \in {HTTP_404_NOT_FOUND, HTTP_409_CONFLICT}
              /\ stock = before[s].stock

(* C18: in every committed state no two materials and no two products      *)
(* share a name or a slug, no two warehouses share a name, a slug or a     *)
(* location; a valid creation request whose name, slug or location is      *)
(* that of an existing entity of its kind is answered Conflict after a     *)
(* rollback and changes no table.                                          *)
C18_UniqueNames ==
    /\ UniqueNamed(materials)
    /\ UniqueNamed(products)
    /\ UniqueNamed(warehouses)
    /\ \A a, b \in warehouses : a # b => a.location # b.location
    /\ \A s \in Sessions :
           LET body == request[s]
               conflict ==
                   \/ /\ Served(s, "create_material")
                      /\ MaterialCreateValid(body)
                      /\ Clashes(before[s].materials, body.name)
                   \/ /\ Served(s, "create_product")
                      /\ ProductCreateValid(body)
                      /\ Clashes(before[s].products, body.name)
                   \/ /\ Served(s, "create_warehouse")
                      /\ WarehouseCreateValid(body)
                      /\ \/ Clashes(before[s].warehouses, body.name)
                         \/ \E w \in before[s].warehouses :
                                w.location = body.location.value
           IN conflict => /\ response[s].status = HTTP_409_CONFLICT
                          /\ calls[s] = <<"rollback">>
                          /\ CatalogUnchanged(s)

C18_Witness ==
    \E s \in Sessions :
        /\ Served(s, "create_warehouse")
        /\ response[s].status = HTTP_409_CONFLICT
        /\ \E w \in warehouses :
               /\ w.name # request[s].name
               /\ w.slug = slugify(request[s].name)
               /\ w.location # request[s].location.value
        /\ Cardinality(materials) = 2
        /\ Cardinality(products) = MaxProducts

(* C19: the id, the name and the slug of a material, a product or a        *)
(* warehouse never change: a patch changes at most the quantity_unit of    *)
(* one material, or the location and max_capacity of one warehouse, and    *)
(* nothing of a product; a delivery changes no catalogue table.            *)
SameIdentity(rows, rows2) ==
    /\ Ids(rows) \subseteq Ids(rows2)
    /\ \A a \in rows, b \in rows2 :
           a.id = b.id => a.name = b.name /\ a.slug = b.slug

C19_Step ==
    /\ SameIdentity(materials, materials')
    /\ SameIdentity(products, products')
    /\ SameIdentity(warehouses, warehouses')
    /\ \A s \in Sessions :
           /\ request'[s].op = "update_material" =>
                 /\ UNCHANGED <<warehouses, products, stock>>
                 /\ Ids(materials') = Ids(materials)
                 /\ \A a \in materials, b \in materials' :
                        a.id = b.id =>
                            /\ [b EXCEPT !.quantity_unit = a.quantity_unit] = a
                            /\ a.slug # request'[s].slug => b = a
           /\ request'[s].op = "update_product" =>
                 UNCHANGED <<warehouses, materials, products, stock>>
           /\ request'[s].op = "update_warehouse" =>
                 /\ UNCHANGED <<materials, products, stock>>
                 /\ Ids(warehouses') = Ids(warehouses)
                 /\ \A a \in warehouses, b \in warehouses' :
                        a.id = b.id =>
                            /\ [b EXCEPT !.location = a.location,
                                         !.max_capacity = a.max_capacity] = a
                            /\ a.slug # request'[s].slug => b = a
           /\ request'[s].op = "delivery" =>
                 UNCHANGED <<warehouses, materials, products>>

C20_EmptySlugIsValidationError ==
    /\ \A r \in materials \cup products \cup warehouses : r.slug # <<>>
    /\ \A s \in Sessions :
           (/\ \/ Served(s, "create_material")
               \/ Served(s, "create_product")
               \/ Served(s, "create_warehouse")
            /\ slugify(request[s].name) = <<>>)
           => /\ response[s].status = HTTP_422_UNPROCESSABLE
              /\ CatalogUnchanged(s)


---------------------------------------------------------------------------
(* Properties of the repositories, the cascades and the catalogue's reads. *)

(* C30: in every committed state reachable by warehouse creations,         *)
(* warehouse patches (changes of max_capacity included) and deliveries,    *)
(* the capacity of every warehouse is >= 0: the stored quantities of a     *)
(* warehouse never add up to more than its max_capacity.                   *)
C30_PatchKeepsCapacityNonNegative ==
    \A w \in warehouses : SumQuantity(StockOf(stock, w.id)) <= w.max_capacity


(* The order of the loop of `create`: the line items are taken one after   *)
(* the other, a lookup follows the capacity check of its line item, a      *)
(* flush follows its lookup, and an answered request does nothing more.    *)
C29_InOrder(s) ==
    /\ (pc[s] # "idle" /\ pc'[s] # "idle") => pos'[s] \in {pos[s], pos[s] + 1}
    /\ (pc'[s] = "find" /\ pc[s] # "find") => pc[s] = "check" /\ pos'[s] = pos[s]
    /\ (pc'[s] = "flush" /\ pc[s] # "flush") => pc[s] = "find" /\ pos'[s] = pos[s]
    /\ (pc[s] # "idle" /\ pos'[s] = pos[s] + 1) => pc[s] = "flush"
    /\ (identity'[s] # identity[s] \/ txn'[s] # txn[s] \/ created'[s] # created[s])
           => pc[s] \in {"check", "find", "flush", "commit"} \/ pc'[s] = "idle"
    /\ (pc[s] = "done" /\ request[s].op = "delivery") => pc'[s] \in {"done", "idle"}

(* The loop stops at a line item whose quantity exceeds the capacity over  *)
(* the rows the transaction sees.                                          *)
C29_StopsAtOverflow(s) ==
    (/\ pc[s] = "check" /\ pc'[s] # "check"
     /\ Lines(s)[pos[s]].quantity > CurrentCapacity(s))
        => /\ pc'[s] = "done"
           /\ response'[s].status = HTTP_400_BAD_REQUEST
           /\ stock' = before[s].stock

(* C29: the line items of a delivery are processed strictly in input       *)
(* order; for each, the capacity check precedes its lookup and staging;    *)
(* the delivery stops at the first line item whose quantity exceeds the    *)
(* current capacity, and no later line item is looked up, created or       *)
(* incremented.                                                            *)
C29_InOrderUntilFirstOverflow ==
    [][\A s \in Sessions : C29_InOrder(s) /\ C29_StopsAtOverflow(s)]_vars


(* A request of kind op is served by session s in this step. *)
Serving(s, op) == pc[s] = "idle" /\ pc'[s] = "done" /\ request'[s].op = op

Deleted(s, op) == Serving(s, op) /\ response'[s].status = HTTP_204_NO_CONTENT

WarehouseExists(r) == \E w \in warehouses : w.id = r.warehouse_id
MaterialExists(r) == \E m \in materials : m.id = r.material_id

(* The deletion of a warehouse or of a material takes the stock positions  *)
(* that reference it, and no other; the capacity of every remaining        *)
(* warehouse grows by the quantities taken from it.                        *)
C23_Cascade(s) ==
    /\ Deleted(s, "delete_warehouse") =>
          \E w \in find_by_slug(warehouses, request'[s].slug) :
              /\ warehouses' = warehouses \ {w}
              /\ stock' = {r \in stock : r.warehouse_id # w.id}
    /\ Deleted(s, "delete_material") =>
          \E m \in find_by_slug(materials, request'[s].slug) :
              /\ materials' = materials \ {m}
              /\ stock' = {r \in stock : r.material_id # m.id}
              /\ \A w \in warehouses' :
                    CommittedCapacity(w)' = CommittedCapacity(w)
                        + SumQuantity({r \in StockOf(stock, w.id) : r.material_id = m.id})

(* C23: deleting a warehouse deletes all its stock positions, deleting a   *)
(* material deletes all stock positions of that material; in every         *)
(* committed state each stock position references a warehouse and a        *)
(* material that both exist, and the capacity of the remaining warehouses  *)
(* reflects the removal.                                                   *)
C23_NoDanglingStock ==
    /\ [](\A r \in stock : WarehouseExists(r) /\ MaterialExists(r))
    /\ [][\A s \in Sessions : C23_Cascade(s)]_vars


(* The commit of a delivery adds rows and increases quantities: every row  *)
(* of before is still there, for the same warehouse and material, with at  *)
(* least its quantity.                                                     *)
C24_Delivered(s) ==
    /\ request[s].op = "delivery" /\ pc[s] = "commit" /\ pc'[s] = "respond"
    /\ \A r \in stock : \E r2 \in stock' :
          /\ r2.id = r.id
          /\ r2.warehouse_id = r.warehouse_id
          /\ r2.material_id = r.material_id
          /\ r2.quantity >= r.quantity

C24_Cascaded(s) ==
    \/ /\ Deleted(s, "delete_warehouse")
       /\ \E w \in warehouses \ warehouses' :
             stock' = {r \in stock : r.warehouse_id # w.id}
    \/ /\ Deleted(s, "delete_material")
       /\ \E m \in materials \ materials' :
             stock' = {r \in stock : r.material_id # m.id}

StockNeutral ==
    {"create_material", "update_material", "get_material", "list_materials",
     "create_product", "update_product", "get_product", "list_products",
     "delete_product",
     "create_warehouse", "update_warehouse", "get_warehouse", "list_warehouses"}

Failed(s) == pc[s] = "done" /\ response[s].status >= HTTP_400_BAD_REQUEST

C25_EmptyWarehouseHasFullCapacity ==
    /\ \A w \in warehouses :
          /\ WarehouseCapacity(w.max_capacity, NoStock) = w.max_capacity
          /\ StockOf(stock, w.id) = {} => CommittedCapacity(w) = w.max_capacity
    /\ \A s \in Sessions :
          /\ (Served(s, "create_warehouse") /\ response[s].status = HTTP_201_CREATED) =>
                \E w \in response[s].entity :
                    /\ w \in warehouses
                    /\ w.max_capacity = IF request[s].max_capacity.set
                                        THEN request[s].max_capacity.value
                                        ELSE DefaultMaxCapacity
                    /\ response[s].capacity = w.max_capacity
                    /\ response[s].stock = {}
          /\ Served(s, "get_warehouse") =>
                \A w \in find_by_slug(before[s].warehouses, request[s].slug) :
                    /\ response[s].status = HTTP_200_OK
                    /\ response[s].entity = {w}
                    /\ StockOf(stock, w.id) = {} => response[s].capacity = w.max_capacity
          /\ (Answered(s) /\ Failed(s)) =>
                \A w \in TargetBefore(s) :
                    StockOf(before[s].stock, w.id) = {}
                        => /\ StockOf(stock, w.id) = {}
                           /\ CommittedCapacity(w) = w.max_capacity

(* A fresh warehouse has refused a delivery, next to a warehouse that was  *)
(* created without a max_capacity.                                         *)
C25_Witness ==
    \E s \in Sessions :
        /\ Answered(s)
        /\ response[s].status = HTTP_400_BAD_REQUEST
        /\ \E w \in TargetBefore(s) : StockOf(before[s].stock, w.id) = {}
        /\ \E w \in warehouses : w.max_capacity = DefaultMaxCapacity


(* The requests served so far and the one session s has just answered. *)
History(s) == Append(journal, [request |-> request[s], response |-> response[s]])

Kinds == {"material", "product", "warehouse"}

Op ==
    [material |-> [create |-> "create_material", get |-> "get_material",
                   update |-> "update_material", delete |-> "delete_material",
                   list |-> "list_materials"],
     product |-> [create |-> "create_product", get |-> "get_product",
                  update |-> "update_product", delete |-> "delete_product",
                  list |-> "list_products"],
     warehouse |-> [create |-> "create_warehouse", get |-> "get_warehouse",
                    update |-> "update_warehouse", delete |-> "delete_warehouse",
                    list |-> "list_warehouses"]]

TableOf(snapshot, k) ==
    IF k = "material" THEN snapshot.materials
    ELSE IF k = "product" THEN snapshot.products
    ELSE snapshot.warehouses

Is(entry, op, status) == entry.request.op = op /\ entry.response.status = status

BySlugOps(k) == {Op[k].get, Op[k].update, Op[k].delete}

PatchValid(body) ==
    /\ body.op = "update_material" => MaterialPatchValid(body)
    /\ body.op = "update_warehouse" => WarehousePatchValid(body)

(* C26: reading, patching or deleting a material, product or warehouse by  *)
(* a slug that matches no entity of that type is answered NotFound (404)   *)
(* and leaves the store unchanged; so is a request by the slug of an       *)
(* entity that was deleted earlier, a second delete included.              *)
C26_UnknownSlugIsNotFound ==
    \A s \in Sessions : pc[s] = "done" =>
        \A k \in Kinds :
            /\ (/\ request[s].op \in BySlugOps(k)
                /\ PatchValid(request[s])
                /\ find_by_slug(TableOf(before[s], k), request[s].slug) = {})
                  => /\ response[s].status = HTTP_404_NOT_FOUND
                     /\ CatalogUnchanged(s)
            /\ LET h == History(s) IN
               \A i \in 1..Len(h), j \in 1..Len(h) :
                  (/\ i < j
                   /\ Is(h[i], Op[k].delete, HTTP_204_NO_CONTENT)
                   /\ h[j].request.op \in BySlugOps(k)
                   /\ h[j].request.slug = h[i].request.slug
                   /\ \A m \in (i + 1)..(j - 1) :
                         ~Is(h[m], Op[k].create, HTTP_201_CREATED))
                      => h[j].response.status = HTTP_404_NOT_FOUND

(* A warehouse was deleted, and deleted again. *)
C26_Witness ==
    \E s \in Sessions :
        /\ Served(s, "delete_warehouse")
        /\ response[s].status = HTTP_404_NOT_FOUND
        /\ Len(journal) > 0
        /\ Is(journal[Len(journal)], "delete_warehouse", HTTP_204_NO_CONTENT)
        /\ journal[Len(journal)].request.slug = request[s].slug

(* C28: create / read / delete round trip.  After a successful creation,   *)
(* reading by the returned slug succeeds and returns the same name, slug   *)
(* and fields as the creation returned; after a deletion by that slug,     *)
(* reading fails with NotFound and the same name can be created again.     *)
C28_RoundTrip ==
    \A s \in Sessions : pc[s] = "done" =>
        LET h == History(s) IN
        \A k \in Kinds :
            /\ \A i \in 1..(Len(h) - 1) :
                  (/\ Is(h[i], Op[k].create, HTTP_201_CREATED)
                   /\ h[i + 1].request.op = Op[k].get
                   /\ \E e \in h[i].response.entity : e.slug = h[i + 1].request.slug)
                      => /\ h[i + 1].response.status = HTTP_200_OK
                         /\ h[i + 1].response.entity = h[i].response.entity
                         /\ h[i + 1].response.capacity = h[i].response.capacity
                         /\ \A e \in h[i + 1].response.entity :
                               e.name = h[i].request.name
            /\ \A i \in 1..(Len(h) - 1) :
                  (/\ Is(h[i], Op[k].delete, HTTP_204_NO_CONTENT)
                   /\ h[i + 1].request.op = Op[k].get
                   /\ h[i + 1].request.slug = h[i].request.slug)
                      => h[i + 1].response.status = HTTP_404_NOT_FOUND
            /\ \A i \in 1..Len(h), j \in 1..(Len(h) - 1) :
                  (/\ i < j
                   /\ Is(h[i], Op[k].create, HTTP_201_CREATED)
                   /\ Is(h[j], Op[k].delete, HTTP_204_NO_CONTENT)
                   /\ \E e \in h[i].response.entity : e.slug = h[j].request.slug
                   /\ h[j + 1].request.op = Op[k].create
                   /\ h[j + 1].request.name = h[i].request.name)
                      => h[j + 1].response.status = HTTP_201_CREATED

(* A warehouse was created, read, deleted and created again. *)
C28_Witness ==
    \E s \in Sessions :
        /\ Len(journal) = 3
        /\ Is(journal[1], "create_warehouse", HTTP_201_CREATED)
        /\ Is(journal[2], "get_warehouse", HTTP_200_OK)
        /\ Is(journal[3], "delete_warehouse", HTTP_204_NO_CONTENT)
        /\ Served(s, "create_warehouse")
        /\ request[s].name = journal[1].request.name
        /\ response[s].status = HTTP_201_CREATED


(* The number of entries of a listing of n rows through a window. *)
Entries(n, offset, limit) ==
    IF n - offset <= 0 THEN 0
    ELSE IF n - offset < limit THEN n - offset ELSE limit

(* items is what stands at the places offset + 1, offset + 2, ... of the   *)
(* rows put in the order of their creation timestamps: each entry is a     *)
(* row, no row is listed twice, the timestamps do not decrease, and the    *)
(* rows created before an entry are enough, and the rows created after it  *)
(* few enough, for it to stand at its place.                               *)
IsWindow(items, rows, offset, limit) ==
    /\ Len(items) = Entries(Cardinality(rows), offset, limit)
    /\ \A i \in DOMAIN items : items[i] \in rows
    /\ \A i, j \in DOMAIN items : i # j => items[i] # items[j]
    /\ \A i, j \in DOMAIN items : i < j => items[i].created_at <= items[j].created_at
    /\ \A i \in DOMAIN items :
          /\ Cardinality({r \in rows : r.created_at < items[i].created_at})
                 <= offset + i - 1
          /\ Cardinality({r \in rows : r.created_at <= items[i].created_at})
                 >= offset + i

(* C27: list_paginated(offset, limit) returns exactly the committed        *)
(* entities of its type ordered by creation timestamp ascending, without   *)
(* the first `offset` ones and cut to at most `limit` entries (limit 0 or  *)
(* an offset beyond the end give the empty list), and changes nothing.     *)
C27_ListIsWindowByCreation ==
    \A s \in Sessions : pc[s] = "done" =>
        \A k \in Kinds : request[s].op = Op[k].list =>
            /\ CatalogUnchanged(s)
            /\ IF ListValid(request[s])
               THEN /\ response[s].status = HTTP_200_OK
                    /\ IsWindow(response[s].items, TableOf(before[s], k),
                                request[s].offset, request[s].limit)
               ELSE response[s].status = HTTP_422_UNPROCESSABLE

(* The second page of one entry of two products created at different      *)
(* times: it holds the younger one.                                        *)
C27_Witness ==
    \E s \in Sessions :
        /\ Served(s, "list_products")
        /\ response[s].status = HTTP_200_OK
        /\ request[s].offset = 1
        /\ request[s].limit = 1
        /\ Len(response[s].items) = 1
        /\ \E r \in products : r.created_at < response[s].items[1].created_at


(* The operations of a repository, and a caller between two of its calls. *)
RepositoryOps ==
    {"find_by_id", "find_by_slug", "find_by_warehouse_id_and_material_id",
     "list_paginated", "create", "update", "delete"}

Called(s) == pc[s] = "repository" /\ request[s].op \in RepositoryOps

Unbound(s) == Called(s) /\ session[s] = NoSession

(* A call of an unbound repository raises, and touches neither the table,  *)
(* nor the session's pending rows, nor the write lock.                     *)
C21_UnboundFailsWithoutStoreAccess ==
    [][\A s \in Sessions :
          (pc[s] = "repository" /\ session[s] = NoSession /\ pos'[s] = pos[s] + 1) =>
              /\ response'[s].raised = SessionNotInitialized
              /\ UNCHANGED <<stock, txn, removed, writer>>]_vars

(* C21: every operation of a repository that was not bound to a session    *)
(* fails with a configuration error that is no NotFound, and a caller that *)
(* branches on NotFound (`except RepositoryException`) does not take that  *)
(* branch because of it.                                                   *)
C21_UnboundIsNoNotFound ==
    \A s \in Sessions : Unbound(s) =>
        /\ response[s].raised # NoException
        /\ response[s].raised # NotFound
        /\ txn[s] = {} /\ removed[s] = {} /\ writer # s
        /\ ~ExceptRepositoryException(response[s].raised)

(* A bound caller was told that there is no such row. *)
C21_BoundNotFound ==
    \E s \in Sessions :
        /\ Called(s)
        /\ session[s] = s
        /\ request[s].op = "find_by_id"
        /\ response[s].raised = NotFound

(* The committed table changes in no step but a caller's commit, which     *)
(* puts the caller's staged rows in and takes its deleted rows out; a      *)
(* rollback leaves the table and drops what was staged.                    *)
C22_OnlyCommitWrites ==
    \A s \in Sessions :
        /\ (pc[s] = "repository" /\ pos'[s] = pos[s] + 1) => stock' = stock
        /\ (pc[s] = "repository" /\ calls'[s] = OnError(calls[s])) =>
              stock' = stock /\ txn'[s] = {} /\ removed'[s] = {}
        /\ (pc[s] = "repository" /\ calls'[s] = OnSuccess(calls[s])) =>
              stock' = {r \in stock : r.id \notin Ids(txn[s]) \cup removed[s]}
                           \cup {r \in txn[s] : r.id \notin removed[s]}

RolledBack(s) ==
    /\ pc[s] = "done"
    /\ request[s].op \in RepositoryOps \cup {"repository"}
    /\ calls[s] = OnError(<<>>)

(* Until its commit the table is as the caller found it, and so it is      *)
(* after its rollback; what a caller reads is committed or its own.        *)
C22_Isolated ==
    \A s \in Sessions :
        /\ (Called(s) \/ RolledBack(s)) => stock = before[s].stock
        /\ (Called(s) /\ session[s] = s) =>
              /\ response[s].entity \subseteq stock \cup txn[s]
              /\ \A i \in DOMAIN response[s].items :
                    \E r \in stock \cup txn[s] : CreatedAt(r, 0) = response[s].items[i]

(* C22: create, update and delete only stage their change in the caller's  *)
(* transaction: none commits, after any sequence of them and a rollback    *)
(* the committed store is the store before the sequence, and other         *)
(* sessions see the changes only after the caller's commit.                *)
C22_StagedUntilCommit == []C22_Isolated /\ [][C22_OnlyCommitWrites]_vars

(* A caller has staged a row, and another one, listing the table in the    *)
(* meantime, was given the rows without it.                                *)
C22_Witness ==
    \E s, t \in Sessions :
        /\ s # t
        /\ Called(s) /\ txn[s] \ stock # {}
        /\ Called(t) /\ session[t] = t
        /\ request[t].op = "list_paginated"
        /\ response[t].raised = NoException
        /\ Len(response[t].items) = Cardinality(stock)


---------------------------------------------------------------------------
(* Properties of interleaved deliveries and of the delivery's frame. *)

(* Two deliveries to one warehouse, both answered 201, whose requests      *)
(* overlapped: neither began on a table the other had committed to.        *)
Overlapped(s, t) ==
    /\ s # t
    /\ Succeeded(s) /\ Succeeded(t)
    /\ delivery[s].warehouse_id = delivery[t].warehouse_id
    /\ before[s].stock = before[t].stock

(* C31: two deliveries to the same warehouse that ran interleaved, each    *)
(* fitting the capacity it observed, leave the committed capacity of the   *)
(* warehouse >= 0: together they exceed max_capacity only if one of them   *)
(* failed.                                                                 *)
C31_InterleavedCapacityNonNegative ==
    \A s, t \in Sessions : Overlapped(s, t) =>
        \A w \in warehouses :
            w.id = delivery[s].warehouse_id => CommittedCapacity(w) >= 0


(* The one line item of a delivery names material m of warehouse w, where  *)
(* the delivery found a stock position and constructed none.               *)
IncrementsOnly(s, w, m) ==
    /\ delivery[s].warehouse_id = w
    /\ Len(delivery[s].positions) = 1
    /\ delivery[s].positions[1].material_id = m
    /\ created[s] = {}

(* C32: two interleaved deliveries that both succeed and both increment    *)
(* the same existing stock position, of quantity q, by a and by b, leave   *)
(* it with the committed quantity q + a + b.                               *)
C32_NoLostUpdate ==
    \A s, t \in Sessions : Overlapped(s, t) =>
        \A r \in before[s].stock :
            (/\ IncrementsOnly(s, r.warehouse_id, r.material_id)
             /\ IncrementsOnly(t, r.warehouse_id, r.material_id))
            => \E x \in stock :
                  /\ x.id = r.id
                  /\ x.quantity = r.quantity + delivery[s].positions[1].quantity
                                             + delivery[t].positions[1].quantity


(* The pairs that had two stock positions when the delivery of s began,    *)
(* among those its line items name.                                        *)
Duplicated(s) ==
    {m \in Materials :
        /\ Names(delivery[s].positions, m)
        /\ Cardinality(find_by_warehouse_id_and_material_id(
               before[s].stock, delivery[s].warehouse_id, m)) > 1}

CapacityBefore(s) ==
    capacity((CHOOSE w \in TargetBefore(s) : TRUE).max_capacity,
             StockOf(before[s].stock, delivery[s].warehouse_id))

(* The statement as it stands: every such delivery is answered Internal.   *)
C33_DuplicatedPairIsInternal ==
    \A s \in Sessions : (Answered(s) /\ Duplicated(s) # {}) =>
        /\ response[s].status = HTTP_500_INTERNAL_SERVER_ERROR
        /\ stock = before[s].stock

(* C33: once two rows exist for a pair, every later delivery with a line   *)
(* item for that pair fails and is rolled back, no row's quantity changes: *)
(* it is answered Internal where the lookup of the pair is reached, and    *)
(* CapacityExceeded where a capacity check before it refuses the delivery; *)
(* a delivery whose first line item names the pair is answered Internal    *)
(* exactly if that line item fits the capacity.                            *)
C33_DuplicatedPairFails ==
    \A s \in Sessions : (Answered(s) /\ Duplicated(s) # {}) =>
        /\ response[s].status \in {HTTP_400_BAD_REQUEST, HTTP_500_INTERNAL_SERVER_ERROR}
        /\ stock = before[s].stock
        /\ txn[s] = {}
        /\ calls[s] = OnError(<<>>)
        /\ delivery[s].positions[1].material_id \in Duplicated(s) =>
              (response[s].status = HTTP_500_INTERNAL_SERVER_ERROR
                  <=> delivery[s].positions[1].quantity <= CapacityBefore(s))

(* A delivery staged a row for its first line item, met the two rows of    *)
(* the pair of its second one, and was answered Internal.                  *)
C33_Witness ==
    \E s \in Sessions :
        /\ Answered(s)
        /\ Len(delivery[s].positions) = 2
        /\ delivery[s].positions[1].material_id \notin Duplicated(s)
        /\ delivery[s].positions[2].material_id \in Duplicated(s)
        /\ find_by_warehouse_id_and_material_id(before[s].stock,
               delivery[s].warehouse_id, delivery[s].positions[1].material_id) = {}
        /\ response[s].status = HTTP_500_INTERNAL_SERVER_ERROR


(* The stock positions of the warehouses other than w. *)
StockElsewhere(rows, w) == {r \in rows : r.warehouse_id # w}

(* A step of the delivery that session s serves. *)
DeliveryStep(s) ==
    /\ request'[s].op = "delivery"
    /\ pc'[s] # pc[s]
    /\ pc'[s] # "idle"

C34_Frame(s) ==
    /\ warehouses = before[s].warehouses
    /\ materials = before[s].materials
    /\ products = before[s].products
    /\ StockElsewhere(stock, delivery[s].warehouse_id)
           = StockElsewhere(before[s].stock, delivery[s].warehouse_id)
    /\ \A w \in warehouses :
           w.id # delivery[s].warehouse_id =>
               CommittedCapacity(w)
                   = capacity(w.max_capacity, StockOf(before[s].stock, w.id))

(* C34: a delivery to warehouse W, successful or failed, leaves unchanged  *)
(* the stock positions and capacity of every other warehouse, the          *)
(* max_capacity, name, slug and location of W, and every material and      *)
(* product: at its answer, and in each of its steps.                       *)
C34_DeliveryFrame ==
    /\ [](\A s \in Sessions : Answered(s) => C34_Frame(s))
    /\ [][\A s \in Sessions : DeliveryStep(s) =>
            /\ UNCHANGED <<warehouses, materials, products>>
            /\ StockElsewhere(stock', delivery'[s].warehouse_id)
                   = StockElsewhere(stock, delivery'[s].warehouse_id)
            /\ StockElsewhere(txn'[s], delivery'[s].warehouse_id) = {}]_vars

(* A delivery has added to the stock of its warehouse while another        *)
(* warehouse holds stock and a material and a product exist.               *)
C34_Witness ==
    \E s \in Sessions :
        /\ Succeeded(s)
        /\ stock # before[s].stock
        /\ StockElsewhere(stock, delivery[s].warehouse_id) # {}
        /\ materials # {} /\ products # {}

====
